---- MODULE Spec2Model ----
(***************************************************************************)
(* The frontend of dream_card as state machines of its pages:              *)
(*   - the admin card browser (src/unnamed/part_002, lines 408-812),       *)
(*   - the player's collection page (src/unnamed/part_001, lines 165-531,  *)
(*     over src/frontend/collection.html),                                 *)
(*   - the auth observer and the login page (src/frontend/js/draw.js,      *)
(*     lines 92-180, and src/frontend/login.html),                         *)
(*   - the admin add-pack page (src/unnamed/part_003),                     *)
(*   - the admin pack-management page (src/unnamed/part_000 over the       *)
(*     markup of src/unnamed/part_002, lines 1-113).                       *)
(* The state is what each closure keeps, the DOM nodes it writes and the   *)
(* requests in flight.  JavaScript runs each handler to its next await     *)
(* without interleaving, so one action is one handler run from its start,  *)
(* or from the resolution of a fetch, to the next fetch.  No state is read *)
(* or written between "await fetch" and the following "await               *)
(* response.json()", so a response is delivered in one step.               *)
(***************************************************************************)
EXTENDS Integers, Sequences, FiniteSets, TLC

(***************************************************************************)
(* Bounds of the model.                                                    *)
(***************************************************************************)
\* user events (the page load, control changes, clicks) in one run
MaxEvents == 4
\* requests that may be pending together
MaxInflight == 2
\* user events in one run of two pages open side by side
MaxPagesEvents == 3
\* rarity groups the add-pack form holds together
MaxRarityGroups == 2
\* user events in one run of the pack-management page
MaxPackEvents == 5

(***************************************************************************)
(* Text.  A JavaScript string is a sequence of one-character strings; null *)
(* is a value that is no such sequence.                                    *)
(***************************************************************************)
Null == <<"null">>

Truthy(s) == s # Null /\ s # <<>>

RECURSIVE TrimLeft(_)
TrimLeft(s) == IF s # <<>> /\ Head(s) = " " THEN TrimLeft(Tail(s)) ELSE s

RECURSIVE TrimRight(_)
TrimRight(s) ==
    IF s # <<>> /\ s[Len(s)] = " " THEN TrimRight(SubSeq(s, 1, Len(s) - 1)) ELSE s

\* String.prototype.trim
Trim(s) == TrimRight(TrimLeft(s))

\* the idiom  input.value.trim() || null
TrimOrNull(s) == IF Trim(s) = <<>> THEN Null ELSE Trim(s)

\* x || ''
OrEmpty(s) == IF Truthy(s) THEN s ELSE <<>>

Digits == <<"0", "1", "2", "3", "4", "5", "6", "7", "8", "9">>

IsDigit(c) == \E d \in 1..10 : Digits[d] = c

DigitVal(c) == (CHOOSE d \in 1..10 : Digits[d] = c) - 1

RECURSIVE DigitPrefix(_)
DigitPrefix(s) ==
    IF s # <<>> /\ IsDigit(Head(s)) THEN <<Head(s)>> \o DigitPrefix(Tail(s)) ELSE <<>>

RECURSIVE DecimalValue(_)
DecimalValue(ds) ==
    IF ds = <<>> THEN 0
    ELSE 10 * DecimalValue(SubSeq(ds, 1, Len(ds) - 1)) + DigitVal(ds[Len(ds)])

\* parseInt(text): leading blanks, an optional sign, then the longest run of
\* digits; NaN when there is no digit
ParseInt(text) ==
    LET t    == TrimLeft(text)
        neg  == t # <<>> /\ Head(t) = "-"
        body == IF t # <<>> /\ Head(t) \in {"-", "+"} THEN Tail(t) ELSE t
        ds   == DigitPrefix(body)
    IN  IF ds = <<>> THEN [nan |-> TRUE, val |-> 0]
        ELSE [nan |-> FALSE,
              val |-> IF neg THEN 0 - DecimalValue(ds) ELSE DecimalValue(ds)]

RECURSIVE FormEncode(_)
\* URLSearchParams.toString(): a blank becomes "+", a "+" becomes %2B
FormEncode(s) ==
    IF s = <<>> THEN <<>>
    ELSE (CASE Head(s) = " " -> <<"+">>
            [] Head(s) = "+" -> <<"%2B">>
            [] OTHER -> <<Head(s)>>) \o FormEncode(Tail(s))

RECURSIVE UriEncode(_)
\* encodeURIComponent: a blank becomes %20, a "+" becomes %2B
UriEncode(s) ==
    IF s = <<>> THEN <<>>
    ELSE (CASE Head(s) = " " -> <<"%20">>
            [] Head(s) = "+" -> <<"%2B">>
            [] OTHER -> <<Head(s)>>) \o UriEncode(Tail(s))

RECURSIVE QueryDecode(_)
\* what the server reads back from a query-string value
QueryDecode(s) ==
    IF s = <<>> THEN <<>>
    ELSE (CASE Head(s) \in {"+", "%20"} -> <<" ">>
            [] Head(s) = "%2B" -> <<"+">>
            [] OTHER -> <<Head(s)>>) \o QueryDecode(Tail(s))

\* a query parameter that was never appended
Absent == <<"absent">>

(***************************************************************************)
(* The environment: what the user can type or select, and the storage      *)
(* service behind /storage/cards.  The page's markup and the service are   *)
(* not part of the sources, so the option lists and the catalogue are      *)
(* small sets of the model.                                                *)
(***************************************************************************)
CollA == <<"a">>
CollB == <<"a", " ", "b">>

\* texts typed into collectionNameInput
CollectionTexts == {<<>>, <<"a", " ">>, CollB}

\* texts typed into searchInput
SearchTexts == {<<" ">>, <<"x", " ">>}

\* texts typed into a card's quantity input
QuantityTexts == {<<"-", "1">>, <<"a", "b", "c">>, <<"0">>}

\* the collectionName parameter of the page's own URL (null when missing)
UrlParams == {Null, CollA}

SortByOptions == {"card_name", "point_worth"}
SortOrderOptions == {"asc", "desc"}
PerPageOptions == {1, 2}

CardRecord(i, n, q) == [id |-> i, card_name |-> n, quantity |-> q]

\* the cards the service holds per collection, in ascending order
Catalogue(coll) ==
    IF coll = CollA THEN <<CardRecord("c1", "n1", 1), CardRecord("c2", "n2", 1)>>
    ELSE <<>>

Reverse(s) == [i \in 1..Len(s) |-> s[Len(s) + 1 - i]]

CeilDiv(n, d) == (n + d - 1) \div d

Min(a, b) == IF a < b THEN a ELSE b

\* the page of cards a well-formed answer to query q carries
PageOfCards(q) ==
    LET all   == Catalogue(QueryDecode(q.collectionName))
        items == IF q.sort_order = "desc" THEN Reverse(all) ELSE all
        first == (q.page - 1) * q.per_page + 1
        last  == Min(q.page * q.per_page, Len(items))
    IN  SubSeq(items, first, last)

PaginationOf(q) ==
    [current_page |-> q.page,
     total_pages  |-> CeilDiv(Len(Catalogue(QueryDecode(q.collectionName))), q.per_page)]

NoPagination == [current_page |-> 0, total_pages |-> 0]

\* an HTTP exchange as the handlers see it: fetch rejects (net), or resolves
\* with response.ok false (http) or true (ok) and a JSON body
Response(o, st, det, obj, hc, cs, hp, pg, cd) ==
    [outcome |-> o, status |-> st, detail |-> det, isObject |-> obj,
     hasCards |-> hc, cards |-> cs, hasPagination |-> hp, pagination |-> pg,
     card |-> cd]

NoCard == CardRecord("", "", 0)

NetworkFailure == Response("net", "", Absent, FALSE, FALSE, <<>>, FALSE, NoPagination, NoCard)

HttpError(st, det) ==
    Response("http", st, det, TRUE, FALSE, <<>>, FALSE, NoPagination, NoCard)

\* the answers the service may give to GET /storage/cards?q
ListResponses(q) ==
    { NetworkFailure,
      HttpError("500", <<"db unavailable">>),
      HttpError("404", Absent),
      Response("ok", "200", Absent, FALSE, FALSE, <<>>, FALSE, NoPagination, NoCard),
      Response("ok", "200", Absent, TRUE, FALSE, <<>>, FALSE, NoPagination, NoCard),
      Response("ok", "200", Absent, TRUE, FALSE, <<>>, TRUE, PaginationOf(q), NoCard),
      Response("ok", "200", Absent, TRUE, TRUE, PageOfCards(q), TRUE, PaginationOf(q), NoCard),
      Response("ok", "200", Absent, TRUE, TRUE, PageOfCards(q), FALSE, NoPagination, NoCard) }

CardIds == {"c1", "c2"}

\* the quantities the service may report after a relative change
ServerQuantities == {4}

CardName(i) == IF i = "c1" THEN "n1" ELSE "n2"

\* the answers the service may give to a PATCH or PUT of card i; with
\* want >= 0 the update sets that quantity, otherwise the service decides
UpdateResponses(i, want) ==
    { NetworkFailure, HttpError("404", <<"Card not found">>) }
    \cup { Response("ok", "200", Absent, TRUE, FALSE, <<>>, FALSE, NoPagination,
                    CardRecord(i, CardName(i), q)) :
           q \in IF want >= 0 THEN {want} ELSE ServerQuantities }

(***************************************************************************)
(* State.                                                                  *)
(***************************************************************************)
VARIABLES
    pc,                       \* "start" before DOMContentLoaded, then "ready"
    urlCollectionParam,       \* collectionName of window.location.search
    currentPage, itemsPerPage, currentSortBy, currentSortOrder,
    currentCollectionName, currentSearchQuery, totalPages,
    loadingMessage,           \* its style.display
    errorMessageDiv,          \* [display, textContent]
    cardDisplayArea,          \* its child nodes, in document order
    paginationControlsTop, paginationControlsBottom,
    clearSearchButton,        \* its style.display
    alerts,                   \* the texts window.alert showed in the step just taken
    inflight,                 \* requests sent and not yet answered
    nEvents,                  \* user events so far
    nextRid,                  \* number given to the next GET /cards
    nextUid,                  \* number given to the next PATCH or PUT
    lastGetRid,               \* number of the latest GET /cards issued, 0 if none
    lastGetOutcome,           \* how that GET ended: "none" before any GET was
                              \* issued, "pending", "ok" once its answer was
                              \* rendered, "failed" once its answer was an error
    shownRid,                 \* GET whose answer was last rendered into the card
                              \* area since it was last cleared, 0 if none
    hadData,                  \* some answer has rendered cards before
    lastEvent                 \* the step just taken

viewVars == <<currentPage, itemsPerPage, currentSortBy, currentSortOrder,
              currentCollectionName, currentSearchQuery, totalPages>>

domVars == <<loadingMessage, errorMessageDiv, cardDisplayArea,
             paginationControlsTop, paginationControlsBottom, clearSearchButton,
             alerts>>

vars == <<pc, urlCollectionParam, viewVars, domVars, inflight, nEvents, nextRid,
          nextUid,
          lastGetRid, lastGetOutcome, shownRid, hadData, lastEvent>>

\* the step just taken: the handler, how it ended, the page before it, the
\* card and text it was given, and the quantity an update answer returned
Event(o, r, p, c, t) ==
    [op |-> o, outcome |-> r, prevPage |-> p, card |-> c, text |-> t, quantity |-> 0]

NoControls ==
    [present |-> FALSE, current_page |-> 0, total_pages |-> 0,
     prev |-> [page |-> 0, disabled |-> TRUE], next |-> [page |-> 0, disabled |-> TRUE]]

Init ==
    /\ pc = "start"
    /\ urlCollectionParam \in UrlParams
    /\ currentPage = 1
    /\ itemsPerPage = 1
    /\ currentSortBy = "card_name"
    /\ currentSortOrder = "asc"
    /\ currentCollectionName = Null
    /\ currentSearchQuery = Null
    /\ totalPages = 1
    /\ loadingMessage = "none"
    /\ errorMessageDiv = [display |-> "none", textContent |-> <<>>]
    /\ cardDisplayArea = <<>>
    /\ paginationControlsTop = NoControls
    /\ paginationControlsBottom = NoControls
    /\ clearSearchButton = "none"
    /\ alerts = <<>>
    /\ inflight = {}
    /\ nEvents = 0
    /\ nextRid = 1
    /\ nextUid = 1
    /\ lastGetRid = 0
    /\ lastGetOutcome = "none"
    /\ shownRid = 0
    /\ hadData = FALSE
    /\ lastEvent = Event("init", "", 1, "", <<>>)

(***************************************************************************)
(* Rendering helpers of the closure.                                       *)
(***************************************************************************)
\* createButton: the page its click handler assigns and its disabled flag
CreateButton(page, isDisabled) == [page |-> page, disabled |-> isDisabled]

\* renderPaginationControls(paginationData): the content both containers
\* get; called with no argument (hasData FALSE) it only empties them
RenderPaginationControls(hasData, paginationData) ==
    IF ~hasData \/ paginationData.total_pages <= 0 THEN NoControls
    ELSE [present      |-> TRUE,
          current_page |-> paginationData.current_page,
          total_pages  |-> paginationData.total_pages,
          prev |-> CreateButton(paginationData.current_page - 1,
                                paginationData.current_page = 1),
          next |-> CreateButton(paginationData.current_page + 1,
                                paginationData.current_page = paginationData.total_pages)]

\* displayError without the line that empties the card area
DisplayErrorKeepsCards(message) ==
    /\ errorMessageDiv' = [display |-> "block", textContent |-> message]
    /\ loadingMessage' = "none"
    /\ cardDisplayArea' = cardDisplayArea
    /\ paginationControlsTop' = RenderPaginationControls(FALSE, NoPagination)
    /\ paginationControlsBottom' = RenderPaginationControls(FALSE, NoPagination)

\* displayError(message): the error banner is shown, the loading message
\* hidden, the card area and both pagination containers emptied
DisplayError(message) ==
    /\ errorMessageDiv' = [display |-> "block", textContent |-> message]
    /\ loadingMessage' = "none"
    /\ cardDisplayArea' = <<>>
    /\ paginationControlsTop' = RenderPaginationControls(FALSE, NoPagination)
    /\ paginationControlsBottom' = RenderPaginationControls(FALSE, NoPagination)

\* a paragraph the card area is set to
Paragraph(t) ==
    [type |-> "p", id |-> "", card_name |-> "", quantity |-> 0, input |-> <<>>,
     coll |-> <<>>, text |-> t]

\* the .card-item built for one card of an answer; its buttons carry the
\* collection name current when it is built
CardElement(card, coll) ==
    [type |-> "card", id |-> card.id, card_name |-> card.card_name,
     quantity |-> card.quantity, input |-> <<>>, coll |-> OrEmpty(coll), text |-> ""]

CardElements(cards, coll) == [i \in 1..Len(cards) |-> CardElement(cards[i], coll)]

(***************************************************************************)
(* Requests.                                                               *)
(***************************************************************************)
NoQuery ==
    [page |-> 0, per_page |-> 0, sort_by |-> "", sort_order |-> "",
     collectionName |-> Absent, search_query |-> Absent]

\* a request in flight: its method, its number, the handler that sent it,
\* and its query (GET) or card, body amount, collection and typed text
Request(k, r, o, q, c, a, cn, t) ==
    [kind |-> k, rid |-> r, op |-> o, query |-> q, card |-> c, amount |-> a,
     coll |-> cn, text |-> t]

\* the requests of one method that are in flight
Pending(kind) == {req \in inflight : req.kind = kind}

ViewTuple(page, perPage, sortBy, sortOrder, coll, search) ==
    [page |-> page, perPage |-> perPage, sortBy |-> sortBy, sortOrder |-> sortOrder,
     coll |-> coll, search |-> search]

\* the URLSearchParams built by fetchAndDisplayCards for view tuple v
BuildQuery(v) ==
    [page |-> v.page, per_page |-> v.perPage, sort_by |-> v.sortBy,
     sort_order |-> v.sortOrder,
     collectionName |-> IF Truthy(v.coll) /\ Trim(v.coll) # <<>>
                        THEN FormEncode(Trim(v.coll)) ELSE Absent,
     search_query |-> IF Truthy(v.search) /\ Trim(v.search) # <<>>
                      THEN FormEncode(Trim(v.search)) ELSE Absent]

\* the collection name after the two "if (!currentCollectionName)" blocks
\* that read the page URL
CollectionFromUrl(coll) ==
    IF ~Truthy(coll) /\ Truthy(urlCollectionParam) THEN urlCollectionParam ELSE coll

\* parseUrlParams() is called when the name is still empty; no such
\* function exists, so the call throws a ReferenceError
ThrowsReferenceError(coll) == ~Truthy(CollectionFromUrl(coll))

\* "url += ..." on the const url throws a TypeError when a search is set
ThrowsTypeError(search) == Truthy(search) /\ Trim(search) # <<>>

\* fetchAndDisplayCards() up to its "await fetch(url)", run by handler op
\* after it has assigned view tuple v and left the clear button as clearBtn.
\* An exception before the try block leaves the async function rejected
\* with nobody handling it.
FetchAndDisplayCards(op, v, clearBtn) ==
    LET coll   == CollectionFromUrl(v.coll)
        v1     == [v EXCEPT !.coll = coll]
        refErr == ThrowsReferenceError(v.coll)
        typErr == ~refErr /\ ThrowsTypeError(v.search)
    IN  /\ loadingMessage' = "block"
        /\ errorMessageDiv' = [errorMessageDiv EXCEPT !.display = "none"]
        /\ cardDisplayArea' = <<>>
        /\ shownRid' = 0
        /\ currentPage' = v.page
        /\ itemsPerPage' = v.perPage
        /\ currentSortBy' = v.sortBy
        /\ currentSortOrder' = v.sortOrder
        /\ currentCollectionName' = coll
        /\ currentSearchQuery' = v.search
        /\ clearSearchButton' =
               IF refErr THEN clearBtn
               ELSE IF ThrowsTypeError(v.search) THEN "inline-block" ELSE "none"
        /\ IF refErr \/ typErr
           THEN /\ inflight' = inflight
                /\ nextRid' = nextRid
                /\ lastGetRid' = lastGetRid
                /\ lastGetOutcome' = lastGetOutcome
                /\ lastEvent' = Event(op, "threw", currentPage, "", <<>>)
           ELSE /\ inflight' = inflight \cup
                      {Request("GET", nextRid, op, BuildQuery(v1), "", 0, <<>>, <<>>)}
                /\ nextRid' = nextRid + 1
                /\ lastGetRid' = nextRid
                /\ lastGetOutcome' = "pending"
                /\ lastEvent' = Event(op, "issued", currentPage, "", <<>>)
        /\ nEvents' = nEvents + 1
        /\ alerts' = <<>>
        /\ UNCHANGED <<urlCollectionParam, totalPages, paginationControlsTop,
                       paginationControlsBottom, hadData, nextUid>>

CurrentView ==
    ViewTuple(currentPage, itemsPerPage, currentSortBy, currentSortOrder,
              currentCollectionName, currentSearchQuery)

UserMayAct ==
    /\ pc = "ready"
    /\ nEvents < MaxEvents
    /\ Cardinality(inflight) < MaxInflight

(***************************************************************************)
(* The page load and the control listeners.                                *)
(***************************************************************************)
\* DOMContentLoaded: the closure's state is read from the (empty) inputs
\* and the initial fetchAndDisplayCards() runs
Load ==
    /\ pc = "start"
    /\ pc' = "ready"
    /\ FetchAndDisplayCards("load", CurrentView, clearSearchButton)

FetchCollectionClick(text) ==
    /\ UserMayAct
    /\ FetchAndDisplayCards("collection",
           [CurrentView EXCEPT !.coll = TrimOrNull(text), !.page = 1],
           clearSearchButton)
    /\ UNCHANGED pc

SearchClick(text) ==
    /\ UserMayAct
    /\ FetchAndDisplayCards("search",
           [CurrentView EXCEPT !.search = TrimOrNull(text), !.page = 1],
           clearSearchButton)
    /\ UNCHANGED pc

\* the clear button can be clicked only while it is displayed
ClearSearchClick ==
    /\ UserMayAct
    /\ clearSearchButton # "none"
    /\ FetchAndDisplayCards("clearSearch",
           [CurrentView EXCEPT !.search = Null, !.page = 1], "none")
    /\ UNCHANGED pc

\* a change event carries a value other than the one selected so far
SortByChange(value) ==
    /\ UserMayAct
    /\ value # currentSortBy
    /\ FetchAndDisplayCards("sortBy",
           [CurrentView EXCEPT !.sortBy = value, !.page = 1], clearSearchButton)
    /\ UNCHANGED pc

\* the sort-order listener without its "currentPage = 1"
SortOrderChangeKeepsPage(value) ==
    /\ UserMayAct
    /\ value # currentSortOrder
    /\ FetchAndDisplayCards("sortOrder",
           [CurrentView EXCEPT !.sortOrder = value], clearSearchButton)
    /\ UNCHANGED pc

SortOrderChange(value) ==
    /\ UserMayAct
    /\ value # currentSortOrder
    /\ FetchAndDisplayCards("sortOrder",
           [CurrentView EXCEPT !.sortOrder = value, !.page = 1], clearSearchButton)
    /\ UNCHANGED pc

PerPageChange(value) ==
    /\ UserMayAct
    /\ value # itemsPerPage
    /\ FetchAndDisplayCards("perPage",
           [CurrentView EXCEPT !.perPage = value, !.page = 1], clearSearchButton)
    /\ UNCHANGED pc

\* a click on a pagination button that is rendered and not disabled
PageButtonClick(controls, which) ==
    /\ UserMayAct
    /\ controls.present
    /\ ~controls[which].disabled
    /\ FetchAndDisplayCards("page",
           [CurrentView EXCEPT !.page = controls[which].page], clearSearchButton)
    /\ UNCHANGED pc

(***************************************************************************)
(* fetchAndDisplayCards() from the resolution of its fetch.                *)
(***************************************************************************)
\* the message without the detail the body carries
HttpErrorMessageStatusOnly(r) == <<"Error fetching cards. Status: ", r.status>>

\* the message of the Error thrown for a response that is not ok
HttpErrorMessage(r) ==
    <<"Error fetching cards. Status: ", r.status>>
    \o (IF r.detail # Absent THEN <<", Server says: ">> \o r.detail ELSE <<>>)

\* the catch block: fetch rejected, or the response was not ok
ListFailed(r) ==
    /\ DisplayError(<<"Failed to load cards. ">>
                    \o (IF r.outcome = "net" THEN <<"Failed to fetch">>
                        ELSE HttpErrorMessage(r)))
    /\ shownRid' = 0
    /\ lastEvent' = Event("listResponse", "error", currentPage, "", <<>>)
    /\ UNCHANGED <<totalPages, hadData>>

\* a 2xx body that is no object: the error is shown and the function returns
ListInvalid(r) ==
    /\ DisplayError(<<"Invalid data structure received from server.">>)
    /\ shownRid' = 0
    /\ lastEvent' = Event("listResponse", "invalid", currentPage, "", <<>>)
    /\ UNCHANGED <<totalPages, hadData>>

\* what the card area holds after the three-way branch on result.cards
RenderedCards(r) ==
    IF ~r.hasCards
    THEN <<Paragraph("No cards data found in the expected format (array).")>>
    ELSE IF r.cards = <<>>
    THEN <<Paragraph("No cards found matching your criteria.")>>
    ELSE cardDisplayArea \o CardElements(r.cards, currentCollectionName)

\* the value the branch assigns to totalPages
TotalPagesOf(r) ==
    IF r.hasCards /\ r.cards # <<>> /\ r.hasPagination /\ r.pagination.total_pages # 0
    THEN r.pagination.total_pages
    ELSE 0

\* the argument of the closing renderPaginationControls call
PaginationArgument(r) ==
    IF r.hasPagination THEN r.pagination
    ELSE [current_page |-> currentPage, total_pages |-> TotalPagesOf(r)]

\* a 2xx object body: the cards, the message or the pagination are rendered;
\* the error banner is left as it was
ListRendered(req, r) ==
    /\ loadingMessage' = "none"
    /\ cardDisplayArea' = RenderedCards(r)
    /\ totalPages' = TotalPagesOf(r)
    /\ paginationControlsTop' = RenderPaginationControls(TRUE, PaginationArgument(r))
    /\ paginationControlsBottom' = RenderPaginationControls(TRUE, PaginationArgument(r))
    /\ shownRid' = req.rid
    /\ hadData' = (hadData \/ (r.hasCards /\ r.cards # <<>>))
    /\ lastEvent' = Event("listResponse",
                          IF ~r.hasCards THEN "badformat"
                          ELSE IF r.cards = <<>> THEN "empty" ELSE "cards",
                          currentPage, "", <<>>)
    /\ UNCHANGED errorMessageDiv

\* the answer r to GET request req arrives
ListResponse(req, r) ==
    /\ req \in inflight
    /\ req.kind = "GET"
    /\ r \in ListResponses(req.query)
    /\ inflight' = inflight \ {req}
    /\ alerts' = <<>>
    /\ IF r.outcome # "ok" THEN ListFailed(r)
       ELSE IF ~r.isObject THEN ListInvalid(r)
       ELSE ListRendered(req, r)
    /\ lastGetOutcome' =
           IF req.rid # lastGetRid THEN lastGetOutcome
           ELSE IF r.outcome = "ok" /\ r.isObject THEN "ok" ELSE "failed"
    /\ UNCHANGED <<pc, urlCollectionParam, currentPage, itemsPerPage, currentSortBy,
                   currentSortOrder, currentCollectionName, currentSearchQuery,
                   clearSearchButton, nEvents, nextRid, nextUid, lastGetRid>>

(***************************************************************************)
(* window.updateQuantity and window.updateQuantityByInput.                 *)
(***************************************************************************)
\* index of the node document.querySelector('[data-card-id="id"]') finds:
\* the first card element with that id, 0 if there is none
QuerySelector(area, id) ==
    IF \E i \in 1..Len(area) : area[i].type = "card" /\ area[i].id = id
    THEN CHOOSE i \in 1..Len(area) :
             /\ area[i].type = "card" /\ area[i].id = id
             /\ \A j \in 1..(i - 1) : ~(area[j].type = "card" /\ area[j].id = id)
    ELSE 0

\* the quantity written into every card element instead of the one found
SetQuantityValueEverywhere(area, id, quantity) ==
    [i \in 1..Len(area) |->
        IF area[i].type = "card" THEN [area[i] EXCEPT !.quantity = quantity]
        ELSE area[i]]

\* cardElement.querySelector('.quantity-value').textContent = quantity
SetQuantityValue(area, id, quantity) ==
    IF QuerySelector(area, id) = 0 THEN area
    ELSE [area EXCEPT ![QuerySelector(area, id)].quantity = quantity]

\* cardElement.querySelector('.quantity-input').value = ''
ClearQuantityInput(area, id) ==
    IF QuerySelector(area, id) = 0 THEN area
    ELSE [area EXCEPT ![QuerySelector(area, id)].input = <<>>]

\* the ?collectionName= suffix of an update URL
CollectionSuffix(coll) ==
    IF Truthy(coll) /\ Trim(coll) # <<>> THEN UriEncode(Trim(coll)) ELSE Absent

\* the message of the Error thrown for an update response that is not ok
UpdateErrorMessage(r) ==
    IF r.outcome = "net" THEN "Failed to fetch"
    ELSE IF r.detail # Absent THEN r.detail[1]
    ELSE "Error: " \o r.status

UpdateEvent(o, r, c, t, q) == [Event(o, r, currentPage, c, t) EXCEPT !.quantity = q]

\* updateQuantity(documentId, change, collectionName) up to its fetch,
\* called by handler op: the PATCH is sent whatever the change is
UpdateQuantity(op, documentId, change, coll, text) ==
    /\ inflight' = inflight \cup
           {Request("PATCH", nextUid, op, NoQuery, documentId, change,
                    CollectionSuffix(coll), text)}
    /\ nextUid' = nextUid + 1

\* a click on the +1 or -1 button of the i-th node of the card area
QuantityButtonClick(i, change) ==
    /\ UserMayAct
    /\ i \in 1..Len(cardDisplayArea)
    /\ cardDisplayArea[i].type = "card"
    /\ UpdateQuantity("quantity", cardDisplayArea[i].id, change,
                      cardDisplayArea[i].coll, <<>>)
    /\ nEvents' = nEvents + 1
    /\ lastEvent' = UpdateEvent("quantity", "issued", cardDisplayArea[i].id, <<>>, 0)
    /\ alerts' = <<>>
    /\ UNCHANGED <<pc, urlCollectionParam, viewVars, loadingMessage, errorMessageDiv,
                   cardDisplayArea, paginationControlsTop, paginationControlsBottom,
                   clearSearchButton, nextRid, lastGetRid, lastGetOutcome, shownRid,
                   hadData>>

\* text is typed into the i-th node's input and its Set button is clicked:
\* updateQuantityByInput up to its first await
SetButtonClick(i, text) ==
    /\ UserMayAct
    /\ i \in 1..Len(cardDisplayArea)
    /\ cardDisplayArea[i].type = "card"
    /\ cardDisplayArea' = [cardDisplayArea EXCEPT ![i].input = text]
    /\ nEvents' = nEvents + 1
    /\ IF ParseInt(text).nan
       THEN /\ alerts' = <<"Please enter a valid number for quantity change.">>
            /\ lastEvent' = UpdateEvent("set", "rejected", cardDisplayArea[i].id, text, 0)
            /\ UNCHANGED <<inflight, nextUid>>
       ELSE /\ UpdateQuantity("set", cardDisplayArea[i].id, ParseInt(text).val,
                              cardDisplayArea[i].coll, text)
            /\ lastEvent' = UpdateEvent("set", "issued", cardDisplayArea[i].id, text, 0)
            /\ alerts' = <<>>
    /\ UNCHANGED <<pc, urlCollectionParam, viewVars, loadingMessage, errorMessageDiv,
                   paginationControlsTop, paginationControlsBottom, clearSearchButton,
                   nextRid, lastGetRid, lastGetOutcome, shownRid, hadData>>

\* the card area with the updated card's neighbours in reverse order
AfterPatchReordered(req, r) ==
    IF r.outcome = "ok"
    THEN Reverse(SetQuantityValue(cardDisplayArea, req.card, r.card.quantity))
    ELSE cardDisplayArea

\* the card area after updateQuantity's try/catch has handled answer r
AfterPatch(req, r) ==
    IF r.outcome = "ok"
    THEN SetQuantityValue(cardDisplayArea, req.card, r.card.quantity)
    ELSE cardDisplayArea

\* the alert of updateQuantity's catch block, if answer r makes it run
PatchAlerts(r) ==
    IF r.outcome = "ok" THEN <<>>
    ELSE <<"Failed to update quantity: " \o UpdateErrorMessage(r)>>

\* the answer r to a PATCH sent by a +1 or -1 button arrives
QuantityResponse(req, r) ==
    /\ req \in inflight
    /\ req.kind = "PATCH"
    /\ req.op = "quantity"
    /\ r \in UpdateResponses(req.card, 0 - 1)
    /\ inflight' = inflight \ {req}
    /\ cardDisplayArea' = AfterPatch(req, r)
    /\ alerts' = PatchAlerts(r)
    /\ lastEvent' = UpdateEvent("quantityResponse",
                                IF r.outcome = "ok" THEN "ok" ELSE "failed",
                                req.card, <<>>, r.card.quantity)
    /\ UNCHANGED <<pc, urlCollectionParam, viewVars, loadingMessage, errorMessageDiv,
                   paginationControlsTop, paginationControlsBottom, clearSearchButton,
                   nEvents, nextRid, nextUid, lastGetRid, lastGetOutcome, shownRid,
                   hadData>>

\* the answer r to the PATCH sent by updateQuantityByInput arrives:
\* updateQuantity finishes, and updateQuantityByInput goes on to clear the
\* input, validate the text a second time and send the PUT
SetPatchResponse(req, r) ==
    /\ req \in inflight
    /\ req.kind = "PATCH"
    /\ req.op = "set"
    /\ r \in UpdateResponses(req.card, 0 - 1)
    /\ cardDisplayArea' = ClearQuantityInput(AfterPatch(req, r), req.card)
    /\ IF ParseInt(req.text).nan \/ ParseInt(req.text).val < 0
       THEN /\ alerts' = PatchAlerts(r)
                           \o <<"Please enter a valid non-negative number for quantity.">>
            /\ inflight' = inflight \ {req}
            /\ nextUid' = nextUid
            /\ lastEvent' = UpdateEvent("setPatchResponse", "rejected", req.card,
                                        req.text, r.card.quantity)
       ELSE /\ alerts' = PatchAlerts(r)
            /\ inflight' = (inflight \ {req}) \cup
                   {Request("PUT", nextUid, "set", NoQuery, req.card,
                            ParseInt(req.text).val, req.coll, req.text)}
            /\ nextUid' = nextUid + 1
            /\ lastEvent' = UpdateEvent("setPatchResponse", "issued", req.card,
                                        req.text, r.card.quantity)
    /\ UNCHANGED <<pc, urlCollectionParam, viewVars, loadingMessage, errorMessageDiv,
                   paginationControlsTop, paginationControlsBottom, clearSearchButton,
                   nEvents, nextRid, lastGetRid, lastGetOutcome, shownRid, hadData>>

\* the answer r to the PUT of updateQuantityByInput arrives
SetPutResponse(req, r) ==
    /\ req \in inflight
    /\ req.kind = "PUT"
    /\ r \in UpdateResponses(req.card, req.amount)
    /\ inflight' = inflight \ {req}
    /\ cardDisplayArea' =
           IF r.outcome = "ok"
           THEN ClearQuantityInput(
                    SetQuantityValue(cardDisplayArea, req.card, r.card.quantity),
                    req.card)
           ELSE cardDisplayArea
    /\ alerts' = IF r.outcome = "ok" THEN <<>>
                 ELSE <<"Failed to set quantity: " \o UpdateErrorMessage(r)>>
    /\ lastEvent' = UpdateEvent("setPutResponse",
                                IF r.outcome = "ok" THEN "ok" ELSE "failed",
                                req.card, req.text, r.card.quantity)
    /\ UNCHANGED <<pc, urlCollectionParam, viewVars, loadingMessage, errorMessageDiv,
                   paginationControlsTop, paginationControlsBottom, clearSearchButton,
                   nEvents, nextRid, nextUid, lastGetRid, lastGetOutcome, shownRid,
                   hadData>>

(***************************************************************************)
(* State of the other pages of the frontend.  Each page is its own         *)
(* document; a page that is not open keeps its initial state.              *)
(***************************************************************************)
VARIABLES
    \* the collection page (src/unnamed/part_001, src/frontend/collection.html)
    collectionLoaded,         \* its DOMContentLoaded listener has run
    currentCards,             \* [isArray, items]: the body of the last 2xx list answer
    selectedCollection,       \* currentCollectionName of the collection page
    activeTabs,               \* data-collection of the tab buttons marked active
    myCardsArea,              \* [message, cards]: the paragraph or the card elements
    totalCardsSpan, uniqueCardsSpan,
    modalShown,               \* the edit modal carries class "show"
    editForm,                 \* value of each control of edit-card-form, by element id
    collectionAlerts,         \* the texts window.alert showed in the step just taken
    collectionInflight,       \* requests of the collection page not yet answered
    collectionNextRid,
    collectionEvent,          \* the step the collection page has just taken
    \* the pages behind the sign-in (src/frontend/js/draw.js, lines 92-180,
    \* and src/frontend/login.html)
    pathname,                 \* window.location.pathname of the open document
    authUser,                 \* the identity provider's current user, null if none
    authQueue,                \* auth states not yet delivered to the document's observer
    authLink,                 \* the nav's auth link: "none", "login" or "logout"
    navLinks,                 \* the nodes updateNavUI has appended to the nav and
                              \* not removed, in document order
    isLoginMode,
    errorMessage,             \* textContent of #error-message
    authPending,              \* the provider call the document awaits, "none" if none
    authEvent                 \* the step the document has just taken

VARIABLES
    \* the add-pack page (src/unnamed/part_003)
    addPackLoaded,            \* its DOMContentLoaded listener has run
    packNameInput,            \* value of #packName
    raritiesContainer,        \* its .rarity-group children in document order:
                              \* [index, rarityName, rarityProbability]
    rarityGroupIndex,
    responseMessage,          \* [textContent, className]
    addPackInflight,          \* POSTs sent and not yet answered
    addPackNextRid,
    addPackEvent              \* the step the add-pack page has just taken

addPackVars ==
    <<addPackLoaded, packNameInput, raritiesContainer, rarityGroupIndex, responseMessage,
      addPackInflight, addPackNextRid, addPackEvent>>

VARIABLES
    \* the pack-management page (src/unnamed/part_000 over the markup of
    \* src/unnamed/part_002, lines 1-113)
    packsLoaded,              \* its DOMContentLoaded listener has run
    packsTableBody,           \* the pack id of each row, in order
    currentPack,
    packIdDisplay,            \* textContent of #pack-id-display
    raritySections,           \* children of #rarities-container: [rarityName,
                              \* probabilityInput, cardItems, addCardsInput]
    cardsToDelete,            \* value of the hidden field #cards-to-delete
    packModalShown,           \* #pack-details-modal is shown
    packAlerts,               \* alerts appended to #alerts-container by the
                              \* step just taken: [kind, message]
    packInflight,             \* requests of the page not yet answered
    packNextRid,
    removeLog,                \* the Remove clicks since the modal was last
                              \* shown: [pack, rarity, card], in click order
    packEvent                 \* the step the page has just taken

packVars ==
    <<packsLoaded, packsTableBody, currentPack, packIdDisplay, raritySections,
      cardsToDelete, packModalShown, packAlerts, packInflight, packNextRid, removeLog,
      packEvent>>

\* the admin pages
adminVars == <<addPackVars, packVars>>

collectionVars ==
    <<collectionLoaded, currentCards, selectedCollection, activeTabs, myCardsArea,
      totalCardsSpan, uniqueCardsSpan, modalShown, editForm, collectionAlerts,
      collectionInflight, collectionNextRid, collectionEvent>>

\* everything the card browser reads or writes, the event count aside
browserVars ==
    <<pc, urlCollectionParam, viewVars, domVars, inflight, nextRid, nextUid,
      lastGetRid, lastGetOutcome, shownRid, hadData, lastEvent>>

authVars ==
    <<pathname, authUser, authQueue, authLink, navLinks, isLoginMode, errorMessage,
      authPending, authEvent>>

\* the pages other than the card browser stay as they are
OtherPagesIdle == UNCHANGED <<collectionVars, authVars, adminVars>>

(***************************************************************************)
(* The browser: any listener may run, any pending answer may arrive.       *)
(***************************************************************************)
Next ==
    \/ Load /\ OtherPagesIdle
    \/ \E text \in CollectionTexts : FetchCollectionClick(text) /\ OtherPagesIdle
    \/ \E text \in SearchTexts : SearchClick(text) /\ OtherPagesIdle
    \/ ClearSearchClick /\ OtherPagesIdle
    \/ \E value \in SortByOptions : SortByChange(value) /\ OtherPagesIdle
    \/ \E value \in SortOrderOptions : SortOrderChange(value) /\ OtherPagesIdle
    \/ \E value \in PerPageOptions : PerPageChange(value) /\ OtherPagesIdle
    \/ \E controls \in {paginationControlsTop, paginationControlsBottom},
          which \in {"prev", "next"} : PageButtonClick(controls, which) /\ OtherPagesIdle
    \/ \E i \in 1..Len(cardDisplayArea), change \in {1, 0 - 1} :
          QuantityButtonClick(i, change) /\ OtherPagesIdle
    \/ \E i \in 1..Len(cardDisplayArea), text \in QuantityTexts :
          SetButtonClick(i, text) /\ OtherPagesIdle
    \/ \E req \in Pending("GET") : \E r \in ListResponses(req.query) :
          ListResponse(req, r) /\ OtherPagesIdle
    \/ \E req \in Pending("PATCH") : \E r \in UpdateResponses(req.card, 0 - 1) :
          QuantityResponse(req, r) /\ OtherPagesIdle
    \/ \E req \in Pending("PATCH") : \E r \in UpdateResponses(req.card, 0 - 1) :
          SetPatchResponse(req, r) /\ OtherPagesIdle
    \/ \E req \in Pending("PUT") : \E r \in UpdateResponses(req.card, req.amount) :
          SetPutResponse(req, r) /\ OtherPagesIdle

(***************************************************************************)
(* The collection page: the closure of src/unnamed/part_001, lines         *)
(* 196-531, over the markup of src/frontend/collection.html.               *)
(***************************************************************************)
MyCards == <<"my_cards">>
TradeBinder == <<"trade_binder">>

\* data-collection of the three tab buttons
TabCollections == {MyCards, TradeBinder, <<>>}

\* texts typed into customCollectionName
CustomCollectionTexts == {<<>>, <<"a", " ">>}

\* the cards the service holds for a collection of the player
StoredCards(coll) == IF coll = MyCards THEN Catalogue(CollA) ELSE Catalogue(coll)

\* a JavaScript value as === sees it: null, a string with its text, or an
\* object (two values of different types are never equal)
JsNull == [type |-> "null", text |-> <<>>]

JsString(t) == [type |-> "string", text |-> t]

JsObject == [type |-> "object", text |-> <<>>]

StrictEquals(a, b) == a.type = b.type /\ a.type # "object" /\ a.text = b.text

\* the id of a card record as a JavaScript string
IdText(card) == JsString(<<card.id>>)

\* ids of the controls of edit-card-form
EditFormControls ==
    {"card-id", "edit-collection-name", "card-name", "card-rarity", "card-points",
     "card-quantity", "card-date"}

\* the name attribute of each control: the markup gives none of them one
ControlNames == [id \in EditFormControls |-> ""]

\* new FormData(form): an entry for every control that has a name
FormData(form) ==
    {[name |-> ControlNames[id], value |-> form[id]] :
        id \in {c \in EditFormControls : ControlNames[c] # ""}}

\* formData.get(key): the value of the entry of that name, null without one
FormDataGet(formData, key) ==
    IF \E e \in formData : e.name = key
    THEN JsString((CHOOSE e \in formData : e.name = key).value)
    ELSE JsNull

\* a value inside a template literal: null reads "null"
TemplateText(v) == IF v.type = "null" THEN <<"null">> ELSE v.text

\* the ?collectionName= suffix ENDPOINTS.GET_CARDS and UPDATE_CARD append
EndpointSuffix(v) ==
    IF v.type = "string" /\ v.text # <<>> /\ Trim(v.text) # <<>>
    THEN UriEncode(Trim(v.text)) ELSE Absent

\* array.findIndex(card => card.id === cardId), 0 for JavaScript's -1
FindIndex(cards, cardId) ==
    IF \E k \in 1..Len(cards) : StrictEquals(IdText(cards[k]), cardId)
    THEN CHOOSE k \in 1..Len(cards) :
             /\ StrictEquals(IdText(cards[k]), cardId)
             /\ \A j \in 1..(k - 1) : ~StrictEquals(IdText(cards[j]), cardId)
    ELSE 0

RECURSIVE SumQuantity(_)
SumQuantity(cards) ==
    IF cards = <<>> THEN 0 ELSE Head(cards).quantity + SumQuantity(Tail(cards))

\* the body of an answer to the collection page: an array of cards, some
\* other JSON object, or one card
CardsAnswer(o, st, det, arr, cs, cd) ==
    [outcome |-> o, status |-> st, detail |-> det, isArray |-> arr, cards |-> cs,
     card |-> cd]

\* the answers the service may give to GET /storage/cards of the page
CollectionResponses(coll) ==
    { CardsAnswer("net", "", Absent, FALSE, <<>>, NoCard),
      CardsAnswer("http", "500", <<"db unavailable">>, FALSE, <<>>, NoCard),
      CardsAnswer("http", "404", Absent, FALSE, <<>>, NoCard),
      CardsAnswer("ok", "200", Absent, TRUE,
                  StoredCards(IF coll = Absent THEN <<>> ELSE QueryDecode(coll)), NoCard),
      CardsAnswer("ok", "200", Absent, FALSE, <<>>, NoCard) }

\* the answers the service may give to the PUT of the edit form
EditResponses ==
    { CardsAnswer("net", "", Absent, FALSE, <<>>, NoCard),
      CardsAnswer("http", "404", <<"Card not found">>, FALSE, <<>>, NoCard) }
    \cup { CardsAnswer("ok", "200", Absent, FALSE, <<>>, CardRecord(i, CardName(i), q)) :
           i \in CardIds, q \in ServerQuantities }

\* the step the collection page has just taken: the handler, how it ended,
\* and the status, detail and card of the answer it handled
CollectionStep(o, r, st, det, cd) ==
    [op |-> o, outcome |-> r, status |-> st, detail |-> det, card |-> cd]

CollectionInit ==
    /\ collectionLoaded = FALSE
    /\ currentCards = [isArray |-> TRUE, items |-> <<>>]
    /\ selectedCollection = JsNull
    /\ activeTabs = {}
    /\ myCardsArea = [message |-> TRUE, cards |-> <<>>]
    /\ totalCardsSpan = 0
    /\ uniqueCardsSpan = 0
    /\ modalShown = FALSE
    /\ editForm = [id \in EditFormControls |-> <<>>]
    /\ collectionAlerts = <<>>
    /\ collectionInflight = {}
    /\ collectionNextRid = 1
    /\ collectionEvent = CollectionStep("init", "", "", Absent, NoCard)

\* displayCollection(cards): what the card area and the two counters show
DisplayCollection(cards) ==
    IF cards = <<>>
    THEN [area |-> [message |-> TRUE, cards |-> <<>>], total |-> 0, unique |-> 0]
    ELSE [area   |-> [message |-> FALSE, cards |-> cards],
          total  |-> SumQuantity(cards),
          unique |-> Cardinality({cards[k].id : k \in 1..Len(cards)})]

\* the tab buttons fetchCards leaves active for a collection name
ActiveTabsFor(collectionName) ==
    {tab \in TabCollections : tab = TemplateText(collectionName)
                              /\ collectionName.type = "string"}
    \cup (IF collectionName.type = "null" THEN {<<>>} ELSE {})

CollectionMayAct ==
    /\ collectionLoaded
    /\ nEvents < MaxEvents
    /\ Cardinality(collectionInflight) < MaxInflight

\* fetchCards(collectionName) up to its "await fetch(url)", run by handler op
FetchCards(op, collectionName) ==
    /\ selectedCollection' = collectionName
    /\ activeTabs' = ActiveTabsFor(collectionName)
    /\ collectionInflight' = collectionInflight \cup
           {[kind |-> "GET", rid |-> collectionNextRid, card |-> <<>>,
             coll |-> EndpointSuffix(collectionName), cardId |-> JsNull]}
    /\ collectionNextRid' = collectionNextRid + 1
    /\ collectionEvent' = CollectionStep(op, "issued", "", Absent, NoCard)
    /\ nEvents' = nEvents + 1
    /\ UNCHANGED <<currentCards, myCardsArea, totalCardsSpan, uniqueCardsSpan,
                   modalShown, editForm>>

\* the script is evaluated and DOMContentLoaded fires: the my_cards tab
\* exists, so its collection is fetched
CollectionLoad ==
    /\ ~collectionLoaded
    /\ collectionLoaded' = TRUE
    /\ collectionAlerts' = << <<"Attempting to load collection.js">> >>
    /\ FetchCards("load", JsString(MyCards))

TabClick(tab) ==
    /\ CollectionMayAct
    /\ FetchCards("tab", IF tab = <<>> THEN JsNull ELSE JsString(tab))
    /\ collectionAlerts' = <<>>
    /\ UNCHANGED collectionLoaded

ViewCustomCollectionClick(text) ==
    /\ CollectionMayAct
    /\ FetchCards("custom", IF Trim(text) # <<>> THEN JsString(Trim(text)) ELSE JsNull)
    /\ collectionAlerts' = <<>>
    /\ UNCHANGED collectionLoaded

\* the alert of fetchCards' catch block
CardsFailedAlert == <<"Failed to load cards. Please try again later.">>

\* fetchCards from the resolution of its fetch
CardsResponse(req, r) ==
    /\ req \in collectionInflight
    /\ req.kind = "GET"
    /\ r \in CollectionResponses(req.coll)
    /\ collectionInflight' = collectionInflight \ {req}
    /\ IF r.outcome # "ok"
       THEN /\ collectionAlerts' = <<CardsFailedAlert>>
            /\ UNCHANGED <<currentCards, myCardsArea, totalCardsSpan, uniqueCardsSpan>>
       ELSE IF ~r.isArray
       THEN \* cards.forEach is no function: the area is already emptied
            /\ currentCards' = [isArray |-> FALSE, items |-> <<>>]
            /\ myCardsArea' = [message |-> FALSE, cards |-> <<>>]
            /\ collectionAlerts' = <<CardsFailedAlert>>
            /\ UNCHANGED <<totalCardsSpan, uniqueCardsSpan>>
       ELSE /\ currentCards' = [isArray |-> TRUE, items |-> r.cards]
            /\ myCardsArea' = DisplayCollection(r.cards).area
            /\ totalCardsSpan' = DisplayCollection(r.cards).total
            /\ uniqueCardsSpan' = DisplayCollection(r.cards).unique
            /\ collectionAlerts' = <<>>
    /\ collectionEvent' =
           CollectionStep("cardsResponse",
                          IF r.outcome = "ok" /\ r.isArray THEN "ok" ELSE "failed",
                          r.status, r.detail, NoCard)
    /\ UNCHANGED <<collectionLoaded, selectedCollection, activeTabs, modalShown,
                   editForm, collectionNextRid, nEvents>>

\* openEditModal(cardId), the later of the two declarations of that name in
\* the closure and so the one every call reaches: "returned" when no cached
\* card has that id, "threw" when the form is searched for named inputs
OpenEditModal(cardId) ==
    IF ~currentCards.isArray THEN "threw"
    ELSE IF FindIndex(currentCards.items, cardId) = 0 THEN "returned"
    ELSE "threw"

\* a click on the name of the k-th displayed card: the listener passes the
\* card object itself
CardNameClick(k) ==
    /\ CollectionMayAct
    /\ k \in 1..Len(myCardsArea.cards)
    /\ collectionEvent' = CollectionStep("cardName", OpenEditModal(JsObject), "", Absent,
                                         myCardsArea.cards[k])
    /\ collectionAlerts' = <<>>
    /\ nEvents' = nEvents + 1
    /\ UNCHANGED <<collectionLoaded, currentCards, selectedCollection, activeTabs,
                   myCardsArea, totalCardsSpan, uniqueCardsSpan, modalShown, editForm,
                   collectionInflight, collectionNextRid>>

\* closeModal(): the modal is hidden and the form reset to its defaults.  Its
\* close and cancel buttons sit inside the modal, which is never shown, and
\* their listeners do nothing else, so they are left out.
CloseModal ==
    /\ modalShown' = FALSE
    /\ editForm' = [id \in EditFormControls |-> <<>>]

\* the submit listener of edit-card-form and updateCard up to its fetch.
\* The listener tests nothing, so a submit event is taken whenever the page
\* is loaded.
EditFormSubmit ==
    /\ CollectionMayAct
    /\ collectionInflight' = collectionInflight \cup
           {[kind |-> "PUT", rid |-> collectionNextRid,
             card |-> TemplateText(FormDataGet(FormData(editForm), "card-id")),
             coll |-> EndpointSuffix(FormDataGet(FormData(editForm), "edit-collection-name")),
             cardId |-> FormDataGet(FormData(editForm), "card-id")]}
    /\ collectionNextRid' = collectionNextRid + 1
    /\ collectionEvent' = CollectionStep("submit", "issued", "", Absent, NoCard)
    /\ collectionAlerts' = <<>>
    /\ nEvents' = nEvents + 1
    /\ UNCHANGED <<collectionLoaded, currentCards, selectedCollection, activeTabs,
                   myCardsArea, totalCardsSpan, uniqueCardsSpan, modalShown, editForm>>

\* the cached cards after updateCard has merged the returned record
MergeUpdatedCard(cards, cardId, updatedCard) ==
    IF FindIndex(cards, cardId) = 0 THEN cards
    ELSE [cards EXCEPT ![FindIndex(cards, cardId)] = updatedCard]

\* the alert of updateCard's catch block
UpdateFailedAlert == <<"Failed to update card. Please try again.">>

\* updateCard from the resolution of its fetch
EditResponse(req, r) ==
    /\ req \in collectionInflight
    /\ req.kind = "PUT"
    /\ r \in EditResponses
    /\ collectionInflight' = collectionInflight \ {req}
    /\ IF r.outcome # "ok" \/ ~currentCards.isArray
       THEN /\ collectionAlerts' = <<UpdateFailedAlert>>
            /\ UNCHANGED <<currentCards, myCardsArea, totalCardsSpan, uniqueCardsSpan,
                           modalShown, editForm>>
       ELSE /\ currentCards' =
                  [currentCards EXCEPT
                      !.items = MergeUpdatedCard(currentCards.items, req.cardId, r.card)]
            /\ IF FindIndex(currentCards.items, req.cardId) = 0
               THEN UNCHANGED <<myCardsArea, totalCardsSpan, uniqueCardsSpan>>
               ELSE /\ myCardsArea' = DisplayCollection(currentCards'.items).area
                    /\ totalCardsSpan' = DisplayCollection(currentCards'.items).total
                    /\ uniqueCardsSpan' = DisplayCollection(currentCards'.items).unique
            /\ CloseModal
            /\ collectionAlerts' = << <<"Card updated successfully!">> >>
    /\ collectionEvent' =
           CollectionStep("editResponse",
                          IF r.outcome = "ok" /\ currentCards.isArray THEN "ok" ELSE "failed",
                          r.status, r.detail, r.card)
    /\ UNCHANGED <<collectionLoaded, selectedCollection, activeTabs, collectionNextRid,
                   nEvents>>

(***************************************************************************)
(* The collection page's listeners and pending answers.                    *)
(***************************************************************************)
CollectionNext ==
    \/ CollectionLoad /\ UNCHANGED <<browserVars, authVars, adminVars>>
    \/ \E tab \in TabCollections : TabClick(tab) /\ UNCHANGED <<browserVars, authVars, adminVars>>
    \/ \E text \in CustomCollectionTexts :
          ViewCustomCollectionClick(text) /\ UNCHANGED <<browserVars, authVars, adminVars>>
    \/ \E k \in 1..Len(myCardsArea.cards) : CardNameClick(k) /\ UNCHANGED <<browserVars, authVars, adminVars>>
    \/ EditFormSubmit /\ UNCHANGED <<browserVars, authVars, adminVars>>
    \/ \E req \in {q \in collectionInflight : q.kind = "GET"} :
          \E r \in CollectionResponses(req.coll) :
              CardsResponse(req, r) /\ UNCHANGED <<browserVars, authVars, adminVars>>
    \/ \E req \in {q \in collectionInflight : q.kind = "PUT"} :
          \E r \in EditResponses : EditResponse(req, r) /\ UNCHANGED <<browserVars, authVars, adminVars>>

(***************************************************************************)
(* Sign-in: the auth observer every page registers (src/frontend/js/       *)
(* draw.js, lines 92-180) and the login page (src/frontend/login.html).    *)
(* A pathname is a sequence of "/" and segment tokens.                     *)
(***************************************************************************)
\* the user the identity provider reports once somebody is signed in
SignedIn == <<"user">>

\* pathnames a document of the site is opened under
Pathnames ==
    { <<"/", "draw.html">>, <<"/", "frontend", "/", "collection.html">>,
      <<"/", "index.html">>, <<"/">>, <<"/", "login.html">> }

\* window.location.pathname.split('/').pop()
LastSegment(path) == IF path[Len(path)] = "/" THEN "" ELSE path[Len(path)]

\* the pathname a relative href resolves to: the directory of the document
\* followed by the href
ResolveHref(path, href) ==
    (IF path[Len(path)] = "/" THEN path ELSE SubSeq(path, 1, Len(path) - 1))
    \o <<href>>

protectedPages == {"draw.html", "collection.html"}

\* the document is the login page, which carries its own observer
IsLoginDocument(path) == LastSegment(path) = "login.html"

\* the step the document has just taken: the handler, the last segment of
\* the pathname it ran on, the user it was given, and the href it assigned
\* to window.location ("" if none)
AuthStep(o, pg, u, h) == [op |-> o, page |-> pg, user |-> u, href |-> h]

\* a document opened under path while the provider's user is user: its
\* scripts register the observer, which is first called with that user
OpenDocument(path, user) ==
    /\ pathname' = path
    /\ authQueue' = <<user>>
    /\ authLink' = "none"
    /\ navLinks' = <<>>
    /\ isLoginMode' = TRUE
    /\ errorMessage' = <<>>
    /\ authPending' = "none"

AuthInit ==
    /\ pathname \in Pathnames
    /\ authUser \in {Null, SignedIn}
    /\ authQueue = <<authUser>>
    /\ authLink = "none"
    /\ navLinks = <<>>
    /\ isLoginMode = TRUE
    /\ errorMessage = <<>>
    /\ authPending = "none"
    /\ authEvent = AuthStep("init", "", Null, "")

\* no document of these pages is open
AuthIdle ==
    /\ pathname = <<>>
    /\ authUser = Null
    /\ authQueue = <<>>
    /\ authLink = "none"
    /\ navLinks = <<>>
    /\ isLoginMode = TRUE
    /\ errorMessage = <<>>
    /\ authPending = "none"
    /\ authEvent = AuthStep("init", "", Null, "")

\* updateNavUI(user): the link the nav ends with
UpdateNavUI(user) == IF Truthy(user) THEN "logout" ELSE "login"

\* a node updateNavUI creates
NavNode(id, textContent) == [id |-> id, textContent |-> textContent]

\* document.getElementById(id) followed by remove(): the nodes without the
\* first one that carries the id
RemoveById(nodes, id) ==
    IF \E k \in 1..Len(nodes) : nodes[k].id = id
    THEN LET k == CHOOSE i \in 1..Len(nodes) :
                      /\ nodes[i].id = id
                      /\ \A j \in 1..(i - 1) : nodes[j].id # id
         IN  SubSeq(nodes, 1, k - 1) \o SubSeq(nodes, k + 1, Len(nodes))
    ELSE nodes

\* what updateNavUI appends for user
AppendedNodes(user) ==
    IF Truthy(user)
    THEN <<NavNode("user-info", "Logged in as: "), NavNode("auth-link", "Logout")>>
    ELSE <<NavNode("auth-link", "Login/Sign Up")>>

\* updateNavUI without the removal of the nodes it appended before
UpdateNavLinksKeepingOld(nodes, user) == nodes \o AppendedNodes(user)

\* updateNavUI(user) on the nodes appended so far: the existing auth link and
\* user info are removed, then the nodes for user are appended
UpdateNavLinks(nodes, user) ==
    RemoveById(RemoveById(nodes, "auth-link"), "user-info") \o AppendedNodes(user)

\* the observer of draw.js without its test of protectedPages: any
\* signed-out user is sent to login.html
UnguardedRedirect(pageName, user) ==
    IF ~Truthy(user) THEN "login.html"
    ELSE IF pageName = "login.html" THEN "index.html"
    ELSE ""

\* the href the observer of draw.js assigns for user on page pageName
GuardRedirect(pageName, user) ==
    IF ~Truthy(user) /\ pageName \in protectedPages THEN "login.html"
    ELSE IF Truthy(user) /\ pageName = "login.html" THEN "index.html"
    ELSE ""

\* the observer of the login page sends every user to the login page again
LoginRedirectToLogin(user) == IF Truthy(user) THEN "login.html" ELSE ""

\* the href the observer of the login page assigns for user
LoginRedirect(user) == IF Truthy(user) THEN "index.html" ELSE ""

\* the href the observer of the open document assigns for user
ObserverRedirect(path, user) ==
    IF IsLoginDocument(path) THEN LoginRedirect(user)
    ELSE GuardRedirect(LastSegment(path), user)

AuthMayAct == pathname # <<>> /\ nEvents < MaxEvents

\* the provider calls the document's observer with the oldest pending state
AuthStateChanged ==
    /\ authQueue # <<>>
    /\ LET user == Head(authQueue)
           href == ObserverRedirect(pathname, user)
       IN  /\ authEvent' = AuthStep("authStateChanged", LastSegment(pathname), user, href)
           /\ IF href # ""
              THEN OpenDocument(ResolveHref(pathname, href), authUser)
              ELSE /\ authQueue' = Tail(authQueue)
                   /\ authLink' = IF IsLoginDocument(pathname) THEN authLink
                                  ELSE UpdateNavUI(user)
                   /\ navLinks' = IF IsLoginDocument(pathname) THEN navLinks
                                  ELSE UpdateNavLinks(navLinks, user)
                   /\ UNCHANGED <<pathname, isLoginMode, errorMessage, authPending>>
    /\ UNCHANGED <<authUser, nEvents>>

\* the user follows a link of the nav or types an address
OpenPage(path) ==
    /\ AuthMayAct
    /\ path # pathname
    /\ OpenDocument(path, authUser)
    /\ authEvent' = AuthStep("open", LastSegment(pathname), authUser, "")
    /\ nEvents' = nEvents + 1
    /\ UNCHANGED authUser

\* texts typed into the email and password inputs
CredentialTexts == {<<>>, <<"x">>}

\* the submit button of the login page, with the texts in its two inputs
SubmitClick(email, password) ==
    /\ AuthMayAct
    /\ IsLoginDocument(pathname)
    /\ authPending = "none"
    /\ IF email = <<>> \/ password = <<>>
       THEN /\ errorMessage' = <<"Please enter both email and password.">>
            /\ authPending' = "none"
       ELSE /\ errorMessage' = <<>>
            /\ authPending' = IF isLoginMode THEN "signIn" ELSE "signUp"
    /\ authEvent' = AuthStep("submit", LastSegment(pathname), authUser, "")
    /\ nEvents' = nEvents + 1
    /\ UNCHANGED <<pathname, authUser, authQueue, authLink, navLinks, isLoginMode>>

GoogleSignInClick ==
    /\ AuthMayAct
    /\ IsLoginDocument(pathname)
    /\ authPending = "none"
    /\ errorMessage' = <<>>
    /\ authPending' = "popup"
    /\ authEvent' = AuthStep("google", LastSegment(pathname), authUser, "")
    /\ nEvents' = nEvents + 1
    /\ UNCHANGED <<pathname, authUser, authQueue, authLink, navLinks, isLoginMode>>

\* toggleMode
ToggleFormClick ==
    /\ AuthMayAct
    /\ IsLoginDocument(pathname)
    /\ isLoginMode' = ~isLoginMode
    /\ errorMessage' = <<>>
    /\ authEvent' = AuthStep("toggle", LastSegment(pathname), authUser, "")
    /\ nEvents' = nEvents + 1
    /\ UNCHANGED <<pathname, authUser, authQueue, authLink, navLinks, authPending>>

\* the provider accepts the sign-in, sign-up or popup: the user is signed in
\* and the observers are told; the handler's await has nothing left to do
SignInSucceeds ==
    /\ authPending \in {"signIn", "signUp", "popup"}
    /\ authUser' = SignedIn
    /\ authQueue' = Append(authQueue, SignedIn)
    /\ authPending' = "none"
    /\ authEvent' = AuthStep("signedIn", LastSegment(pathname), SignedIn, "")
    /\ UNCHANGED <<pathname, authLink, navLinks, isLoginMode, errorMessage, nEvents>>

\* the provider rejects the call: the catch block shows error.message
SignInFails ==
    /\ authPending \in {"signIn", "signUp", "popup"}
    /\ errorMessage' = (IF authPending = "popup" THEN <<"Error with Google Sign-In: ">>
                        ELSE <<>>) \o <<"auth/invalid-credential">>
    /\ authPending' = "none"
    /\ authEvent' = AuthStep("signInFailed", LastSegment(pathname), authUser, "")
    /\ UNCHANGED <<pathname, authUser, authQueue, authLink, navLinks, isLoginMode, nEvents>>

\* the Logout link updateNavUI added: handleSignOut up to "await signOut"
LogoutClick ==
    /\ AuthMayAct
    /\ authLink = "logout"
    /\ authPending = "none"
    /\ authPending' = "signOut"
    /\ authEvent' = AuthStep("logout", LastSegment(pathname), authUser, "")
    /\ nEvents' = nEvents + 1
    /\ UNCHANGED <<pathname, authUser, authQueue, authLink, navLinks, isLoginMode, errorMessage>>

\* the provider has signed the user out and tells the observers; the
\* handler's continuation is still to run
SignOutSucceeds ==
    /\ authPending = "signOut"
    /\ authUser' = Null
    /\ authQueue' = Append(authQueue, Null)
    /\ authPending' = "signedOut"
    /\ authEvent' = AuthStep("signedOut", LastSegment(pathname), Null, "")
    /\ UNCHANGED <<pathname, authLink, navLinks, isLoginMode, errorMessage, nEvents>>

\* handleSignOut after "await signOut": the document is sent to login.html
SignOutRedirect ==
    /\ authPending = "signedOut"
    /\ OpenDocument(ResolveHref(pathname, "login.html"), authUser)
    /\ authEvent' = AuthStep("signOutRedirect", LastSegment(pathname), authUser,
                             "login.html")
    /\ UNCHANGED <<authUser, nEvents>>

AuthNext ==
    \/ AuthStateChanged /\ UNCHANGED <<browserVars, collectionVars, adminVars>>
    \/ \E path \in Pathnames : OpenPage(path) /\ UNCHANGED <<browserVars, collectionVars, adminVars>>
    \/ \E email \in CredentialTexts, password \in CredentialTexts :
          SubmitClick(email, password) /\ UNCHANGED <<browserVars, collectionVars, adminVars>>
    \/ GoogleSignInClick /\ UNCHANGED <<browserVars, collectionVars, adminVars>>
    \/ ToggleFormClick /\ UNCHANGED <<browserVars, collectionVars, adminVars>>
    \/ SignInSucceeds /\ UNCHANGED <<browserVars, collectionVars, adminVars>>
    \/ SignInFails /\ UNCHANGED <<browserVars, collectionVars, adminVars>>
    \/ LogoutClick /\ UNCHANGED <<browserVars, collectionVars, adminVars>>
    \/ SignOutSucceeds /\ UNCHANGED <<browserVars, collectionVars, adminVars>>
    \/ SignOutRedirect /\ UNCHANGED <<browserVars, collectionVars, adminVars>>

(***************************************************************************)
(* The add-pack page: the DOMContentLoaded closure of                      *)
(* src/unnamed/part_003.  Its markup is not part of the sources; the two   *)
(* inputs of a rarity group are the number inputs createRarityGroupElement *)
(* writes, whose value is "" or a valid number.                            *)
(***************************************************************************)
\* texts typed into #packName
PackNameTexts == {<<" ">>, <<"p">>}

\* values of a group's rarityName input
RarityNameTexts == {<<>>, <<"1">>, <<"2">>}

\* values of a group's rarityProbability input
ProbabilityTexts ==
    {<<>>, <<"0">>, <<"1">>, <<"1", ".", "5">>, <<"-", "0", ".", "1">>}

RECURSIVE Pow10(_)
Pow10(k) == IF k = 0 THEN 1 ELSE 10 * Pow10(k - 1)

\* parseFloat(text) for a text without exponent: leading blanks, an optional
\* sign, digits, an optional point and digits; NaN when there is no digit.
\* The number is num / 10^scale.
ParseFloat(text) ==
    LET t     == TrimLeft(text)
        neg   == t # <<>> /\ Head(t) = "-"
        body  == IF t # <<>> /\ Head(t) \in {"-", "+"} THEN Tail(t) ELSE t
        whole == DigitPrefix(body)
        rest  == SubSeq(body, Len(whole) + 1, Len(body))
        frac  == IF rest # <<>> /\ Head(rest) = "." THEN DigitPrefix(Tail(rest)) ELSE <<>>
        mag   == DecimalValue(whole) * Pow10(Len(frac)) + DecimalValue(frac)
    IN  IF whole = <<>> /\ frac = <<>> THEN [nan |-> TRUE, num |-> 0, scale |-> 0]
        ELSE [nan |-> FALSE, num |-> IF neg THEN 0 - mag ELSE mag, scale |-> Len(frac)]

\* isNaN(probability) || probability < 0 || probability > 1
InvalidProbability(probability) ==
    probability.nan \/ probability.num < 0 \/ probability.num > Pow10(probability.scale)

\* a test that finds no property whatever the object holds
HasOwnPropertyNever(config, rarityName) == FALSE

\* raritiesConfig.hasOwnProperty(rarityName); the object is the set of its
\* [name, probability] properties
HasOwnProperty(config, rarityName) == \E e \in config : e.name = rarityName

\* raritiesConfig[rarityName] = { data: { probability } }
SetProperty(config, rarityName, probability) ==
    {e \in config : e.name # rarityName}
        \cup {[name |-> rarityName, probability |-> probability]}

\* the number of a group as the messages print it
Ordinal(i) == Digits[i + 1]

\* the loop over the active groups from the i-th on, with the properties
\* config collected so far: it stops at the first group it rejects
RECURSIVE ValidateGroups(_, _, _)
ValidateGroups(groups, i, config) ==
    IF i > Len(groups) THEN [isValid |-> TRUE, config |-> config, message |-> <<>>]
    ELSE LET rarityName     == Trim(groups[i].rarityName)
             probabilityStr == Trim(groups[i].rarityProbability)
             probability    == ParseFloat(probabilityStr)
             Rejected(m)    == [isValid |-> FALSE, config |-> config, message |-> m]
         IN  IF rarityName = <<>>
             THEN Rejected(<<"Rarity Level Name for Rarity configuration ", Ordinal(i),
                             " cannot be empty.">>)
             ELSE IF probabilityStr = <<>>
             THEN Rejected(<<"Probability for Rarity ", Ordinal(i), " cannot be empty.">>)
             ELSE IF InvalidProbability(probability)
             THEN Rejected(<<"Invalid probability for Rarity ", Ordinal(i),
                             ". Must be a number between 0.0 and 1.0.">>)
             ELSE IF HasOwnProperty(config, rarityName)
             THEN Rejected(<<"Duplicate Rarity Level Name: '">> \o rarityName
                           \o <<"'. Each rarity name must be unique.">>)
             ELSE ValidateGroups(groups, i + 1,
                                 SetProperty(config, rarityName, probability))

\* the checks of the submit handler after the pack name was accepted
ValidateRarities(groups) ==
    IF Len(groups) = 0
    THEN [isValid |-> FALSE, config |-> {},
          message |-> <<"At least one rarity configuration is required.">>]
    ELSE ValidateGroups(groups, 1, {})

\* createRarityGroupElement(index): a group with two empty inputs
CreateRarityGroupElement(index) ==
    [index |-> index, rarityName |-> <<>>, rarityProbability |-> <<>>]

\* the answers the service may give to POST /packs/: no answer, a JSON body
\* with or without the fields the page reads, or a body that is no JSON
AddPackResponses ==
    { [outcome |-> "net", status |-> "", isJson |-> FALSE, detail |-> Absent],
      [outcome |-> "ok", status |-> "201", isJson |-> TRUE, detail |-> Absent],
      [outcome |-> "ok", status |-> "200", isJson |-> FALSE, detail |-> Absent],
      [outcome |-> "http", status |-> "400", isJson |-> TRUE,
       detail |-> <<"Pack already exists">>],
      [outcome |-> "http", status |-> "500", isJson |-> TRUE, detail |-> Absent] }

AddPackStep(o, r) == [op |-> o, outcome |-> r]

AddPackInit ==
    /\ addPackLoaded = FALSE
    /\ packNameInput = <<>>
    /\ raritiesContainer = <<>>
    /\ rarityGroupIndex = 0
    /\ responseMessage = [textContent |-> <<>>, className |-> ""]
    /\ addPackInflight = {}
    /\ addPackNextRid = 1
    /\ addPackEvent = AddPackStep("init", "")

AddPackMayAct ==
    /\ addPackLoaded
    /\ nEvents < MaxEvents
    /\ Cardinality(addPackInflight) < MaxInflight

\* addRarityConfiguration()
AddRarityConfiguration ==
    /\ raritiesContainer' =
           Append(raritiesContainer, CreateRarityGroupElement(rarityGroupIndex))
    /\ rarityGroupIndex' = rarityGroupIndex + 1

\* DOMContentLoaded: one rarity group is added by default
AddPackLoad ==
    /\ ~addPackLoaded
    /\ addPackLoaded' = TRUE
    /\ AddRarityConfiguration
    /\ addPackEvent' = AddPackStep("load", "")
    /\ nEvents' = nEvents + 1
    /\ UNCHANGED <<packNameInput, responseMessage, addPackInflight, addPackNextRid>>

\* a click on addRarityBtn
AddRarityClick ==
    /\ AddPackMayAct
    /\ Len(raritiesContainer) < MaxRarityGroups
    /\ AddRarityConfiguration
    /\ addPackEvent' = AddPackStep("addRarity", "")
    /\ nEvents' = nEvents + 1
    /\ UNCHANGED <<addPackLoaded, packNameInput, responseMessage, addPackInflight,
                   addPackNextRid>>

\* a click on the Remove Rarity button of the k-th group
RemoveRarityClick(k) ==
    /\ AddPackMayAct
    /\ k \in 1..Len(raritiesContainer)
    /\ raritiesContainer' = SubSeq(raritiesContainer, 1, k - 1)
                            \o SubSeq(raritiesContainer, k + 1, Len(raritiesContainer))
    /\ addPackEvent' = AddPackStep("removeRarity", "")
    /\ nEvents' = nEvents + 1
    /\ UNCHANGED <<addPackLoaded, packNameInput, rarityGroupIndex, responseMessage,
                   addPackInflight, addPackNextRid>>

\* the groups with the values typed into their inputs
FilledGroups(groups, values) ==
    [k \in 1..Len(groups) |->
        [groups[k] EXCEPT !.rarityName = values[k][1], !.rarityProbability = values[k][2]]]

\* the form is filled with name and values and submitted: the submit
\* listener up to its "await fetch"
AddPackSubmit(name, values) ==
    /\ AddPackMayAct
    /\ packNameInput' = name
    /\ raritiesContainer' = FilledGroups(raritiesContainer, values)
    /\ LET packName == Trim(name)
           checked  == ValidateRarities(raritiesContainer')
       IN  IF packName = <<>>
           THEN /\ responseMessage' = [textContent |-> <<"Pack Name cannot be empty.">>,
                                       className |-> "error"]
                /\ addPackEvent' = AddPackStep("submit", "rejected")
                /\ UNCHANGED <<addPackInflight, addPackNextRid>>
           ELSE IF ~checked.isValid
           THEN /\ responseMessage' = [textContent |-> checked.message,
                                       className |-> "error"]
                /\ addPackEvent' = AddPackStep("submit", "rejected")
                /\ UNCHANGED <<addPackInflight, addPackNextRid>>
           ELSE /\ responseMessage' = [textContent |-> <<>>, className |-> ""]
                /\ addPackInflight' = addPackInflight \cup
                       {[rid |-> addPackNextRid, pack_name |-> packName,
                         rarities_config |-> checked.config]}
                /\ addPackNextRid' = addPackNextRid + 1
                /\ addPackEvent' = AddPackStep("submit", "issued")
    /\ nEvents' = nEvents + 1
    /\ UNCHANGED <<addPackLoaded, rarityGroupIndex>>

\* the submit listener from the resolution of its fetch
AddPackResponse(req, r) ==
    /\ req \in addPackInflight
    /\ r \in AddPackResponses
    /\ addPackInflight' = addPackInflight \ {req}
    /\ IF r.outcome = "net" \/ ~r.isJson
       THEN /\ responseMessage' =
                  [textContent |->
                       <<"An unexpected error occurred. Check the console for details.">>,
                   className |-> "error"]
            /\ addPackEvent' = AddPackStep("response", "threw")
            /\ UNCHANGED <<packNameInput, raritiesContainer, rarityGroupIndex>>
       ELSE IF r.outcome = "ok"
       THEN /\ responseMessage' =
                  [textContent |-> <<"Success: ", "created", " (Pack ID: ">>
                                   \o req.pack_name \o <<")">>,
                   className |-> "success"]
            /\ packNameInput' = <<>>
            /\ raritiesContainer' = <<CreateRarityGroupElement(0)>>
            /\ rarityGroupIndex' = 1
            /\ addPackEvent' = AddPackStep("response", "ok")
       ELSE /\ responseMessage' =
                  [textContent |->
                       <<"Error: ">> \o (IF r.detail # Absent THEN r.detail
                                         ELSE <<"Failed to add pack. Status: ", r.status>>),
                   className |-> "error"]
            /\ addPackEvent' = AddPackStep("response", "failed")
            /\ UNCHANGED <<packNameInput, raritiesContainer, rarityGroupIndex>>
    /\ UNCHANGED <<addPackLoaded, addPackNextRid, nEvents>>

\* every page but the add-pack page stays as it is
AddPackOnly == UNCHANGED <<browserVars, collectionVars, authVars, packVars>>

AddPackNext ==
    \/ AddPackLoad /\ AddPackOnly
    \/ AddRarityClick /\ AddPackOnly
    \/ \E k \in 1..Len(raritiesContainer) : RemoveRarityClick(k) /\ AddPackOnly
    \/ \E name \in PackNameTexts :
          \E values \in [1..Len(raritiesContainer) -> RarityNameTexts \X ProbabilityTexts] :
              AddPackSubmit(name, values) /\ AddPackOnly
    \/ \E req \in addPackInflight : \E r \in AddPackResponses :
          AddPackResponse(req, r) /\ AddPackOnly

(***************************************************************************)
(* The pack-management page: src/unnamed/part_000 over the markup of       *)
(* src/unnamed/part_002, lines 1-113.  A JavaScript object is the sequence *)
(* of its [key, value] properties in property order; a JSON text is the    *)
(* sequence of its tokens.                                                 *)
(***************************************************************************)
ObjHas(obj, key) == \E k \in 1..Len(obj) : obj[k].key = key

ObjGet(obj, key) == obj[CHOOSE k \in 1..Len(obj) : obj[k].key = key].value

\* obj[key] = value
ObjSet(obj, key, value) ==
    IF ObjHas(obj, key)
    THEN [k \in 1..Len(obj) |-> IF obj[k].key = key THEN [obj[k] EXCEPT !.value = value]
                                ELSE obj[k]]
    ELSE Append(obj, [key |-> key, value |-> value])

\* tokens of a JSON text: punctuation and strings
Punct(c) == [t |-> c, v |-> <<>>]

Str(text) == [t |-> "string", v |-> text]

RECURSIVE StringifyArray(_)
StringifyArray(ids) ==
    IF ids = <<>> THEN <<>>
    ELSE <<Str(Head(ids))>>
         \o (IF Tail(ids) = <<>> THEN <<>> ELSE <<Punct(",")>> \o StringifyArray(Tail(ids)))

RECURSIVE StringifyMembers(_)
StringifyMembers(obj) ==
    IF obj = <<>> THEN <<>>
    ELSE <<Str(Head(obj).key), Punct(":"), Punct("[")>>
         \o StringifyArray(Head(obj).value) \o <<Punct("]")>>
         \o (IF Tail(obj) = <<>> THEN <<>> ELSE <<Punct(",")>> \o StringifyMembers(Tail(obj)))

\* JSON.stringify of an object whose values are arrays of strings
JsonStringify(obj) == <<Punct("{")>> \o StringifyMembers(obj) \o <<Punct("}")>>

\* the strings of an array whose tokens start at ts, up to its "]":
\* [value, rest]
RECURSIVE ParseArray(_, _)
ParseArray(ts, acc) ==
    IF Head(ts).t = "]" THEN [value |-> acc, rest |-> Tail(ts)]
    ELSE IF Head(ts).t = "," THEN ParseArray(Tail(ts), acc)
    ELSE ParseArray(Tail(ts), Append(acc, Head(ts).v))

RECURSIVE ParseMembers(_, _)
ParseMembers(ts, acc) ==
    IF Head(ts).t = "}" THEN acc
    ELSE IF Head(ts).t = "," THEN ParseMembers(Tail(ts), acc)
    ELSE LET array == ParseArray(SubSeq(ts, 4, Len(ts)), <<>>)
         IN  ParseMembers(array.rest, Append(acc, [key |-> Head(ts).v, value |-> array.value]))

\* JSON.parse of such a text
JsonParse(ts) == ParseMembers(Tail(ts), <<>>)

\* String.prototype.split(sep) on a sequence
RECURSIVE Split(_, _)
Split(s, sep) ==
    IF \E k \in 1..Len(s) : s[k] = sep
    THEN LET k == CHOOSE i \in 1..Len(s) : s[i] = sep /\ \A j \in 1..(i - 1) : s[j] # sep
         IN  <<SubSeq(s, 1, k - 1)>> \o Split(SubSeq(s, k + 1, Len(s)), sep)
    ELSE <<s>>

\* key.startsWith(prefix + '.')
StartsWith(key, prefix) == Len(key) >= 2 /\ key[1] = prefix /\ key[2] = "."

\* array.map(f).filter(id => id) for f = trim
RECURSIVE TrimAndFilter(_)
TrimAndFilter(parts) ==
    IF parts = <<>> THEN <<>>
    ELSE (IF Trim(Head(parts)) = <<>> THEN <<>> ELSE <<Trim(Head(parts))>>)
         \o TrimAndFilter(Tail(parts))

\* a pack as GET /api/packs/{id} returns it
Pack(id, name, configs) == [id |-> id, name |-> name, rarity_configurations |-> configs]

RarityData(probability, cards) == [probability |-> probability, cards |-> cards]

PackOne == <<"p1">>
PackTwo == <<"p2">>

\* the packs the service holds: one with two rarities, one with none
PackStore ==
    << Pack(PackOne, "Starter",
            << [key |-> <<"common">>,
                value |-> RarityData(<<"0", ".", "5">>, << <<"k1">>, <<"k2">> >>)],
               [key |-> <<"rare">>,
                value |-> RarityData(<<"0", ".", "1">>, << <<"k3">> >>)] >>),
       Pack(PackTwo, "Empty", <<>>) >>

\* currentPack before any pack was fetched, or after a body of null
NoPack == Pack(<<>>, "", <<>>)

PackById(id) == PackStore[CHOOSE k \in 1..Len(PackStore) : PackStore[k].id = id]

\* texts typed into an "Add Cards" input
AddCardsTexts == {<<>>, <<",">>, <<"x", ",", " ", "y">>}

\* a section of the PUT body that was deleted from it
Omitted == [present |-> FALSE, entries |-> <<>>]

\* a section of the body and what "delete updates.section" leaves of it
Section(obj) == IF obj = <<>> THEN Omitted ELSE [present |-> TRUE, entries |-> obj]

NoBody == [rarities |-> Omitted, cards_to_add |-> Omitted, cards_to_delete |-> Omitted]

PackRequest(kind, rid, packId, body) ==
    [kind |-> kind, rid |-> rid, packId |-> packId, body |-> body]

\* the answers of the service: to GET /api/packs,
PackListResponses ==
    { [outcome |-> "net", isArray |-> FALSE, packs |-> <<>>],
      [outcome |-> "http", isArray |-> FALSE, packs |-> <<>>],
      [outcome |-> "ok", isArray |-> FALSE, packs |-> <<>>],
      [outcome |-> "ok", isArray |-> TRUE,
       packs |-> [k \in 1..Len(PackStore) |-> PackStore[k].id]] }

\* to GET /api/packs/{id}: no answer, an error, the pack, a body that is no
\* JSON, or the JSON value null,
PackDetailResponses(packId) ==
    { [outcome |-> "net", isJson |-> FALSE, isNull |-> FALSE, pack |-> NoPack],
      [outcome |-> "http", isJson |-> TRUE, isNull |-> FALSE, pack |-> NoPack],
      [outcome |-> "ok", isJson |-> FALSE, isNull |-> FALSE, pack |-> NoPack],
      [outcome |-> "ok", isJson |-> TRUE, isNull |-> TRUE, pack |-> NoPack],
      [outcome |-> "ok", isJson |-> TRUE, isNull |-> FALSE, pack |-> PackById(packId)] }

\* and to PUT /api/packs/{id}/update
PackUpdateResponses == {[outcome |-> o] : o \in {"net", "http", "ok"}}

\* the step the page has just taken: the handler, how it ended, the request
\* it sent or handled (rid 0 if none), the hidden field before the step and
\* whether the modal was shown before it
PackStep(o, r, rid) ==
    [op |-> o, outcome |-> r, rid |-> rid, before |-> cardsToDelete,
     wasShown |-> packModalShown]

PacksInit ==
    /\ packsLoaded = FALSE
    /\ packsTableBody = <<>>
    /\ currentPack = NoPack
    /\ packIdDisplay = <<>>
    /\ raritySections = <<>>
    /\ cardsToDelete = JsonStringify(<<>>)
    /\ packModalShown = FALSE
    /\ packAlerts = <<>>
    /\ packInflight = {}
    /\ packNextRid = 1
    /\ removeLog = <<>>
    /\ packEvent = [op |-> "init", outcome |-> "", rid |-> 0,
                    before |-> JsonStringify(<<>>), wasShown |-> FALSE]

Success(message) == [kind |-> "success", message |-> message]

Danger(message) == [kind |-> "danger", message |-> message]

\* the rarity section showPackDetailsModal builds for one entry of
\* pack.rarity_configurations
RaritySection(rarityName, rarityData) ==
    [rarityName |-> rarityName, probabilityInput |-> rarityData.probability,
     cardItems |-> rarityData.cards, addCardsInput |-> <<>>]

\* the hidden field left as it is when the modal is filled
KeepDeleteList(old) == old

\* document.getElementById('cards-to-delete').value = JSON.stringify({})
ResetDeleteList(old) == JsonStringify(<<>>)

\* showPackDetailsModal(pack)
ShowPackDetailsModal(pack) ==
    /\ packIdDisplay' = pack.id
    /\ raritySections' =
           [k \in 1..Len(pack.rarity_configurations) |->
               RaritySection(pack.rarity_configurations[k].key,
                             pack.rarity_configurations[k].value)]
    /\ cardsToDelete' = ResetDeleteList(cardsToDelete)
    /\ packModalShown' = TRUE
    /\ removeLog' = <<>>

\* the push in front of the list instead of behind it
AddCardToDeleteListFront(deleteList, rarity, cardId) ==
    ObjSet(deleteList, rarity,
           <<cardId>> \o (IF ObjHas(deleteList, rarity) THEN ObjGet(deleteList, rarity)
                          ELSE <<>>))

\* addCardToDeleteList(rarity, cardId) on the parsed value of the field
AddCardToDeleteList(deleteList, rarity, cardId) ==
    ObjSet(deleteList, rarity,
           Append(IF ObjHas(deleteList, rarity) THEN ObjGet(deleteList, rarity) ELSE <<>>,
                  cardId))

\* new FormData(form): the named controls of update-pack-form in document order
PackFormData(sections) ==
    << [key |-> <<"name">>, value |-> <<>>], [key |-> <<"description">>, value |-> <<>>] >>
    \o [k \in 1..(2 * Len(sections)) |->
           LET section == sections[(k + 1) \div 2]
           IN  IF k % 2 = 1
               THEN [key |-> <<"rarities", ".">> \o section.rarityName
                                 \o <<".", "probability">>,
                     value |-> section.probabilityInput]
               ELSE [key |-> <<"cards_to_add", ".">> \o section.rarityName,
                     value |-> section.addCardsInput]]
    \o << [key |-> <<"cards-to-delete">>, value |-> <<>>] >>

\* the loop over formData.entries() from the i-th entry on
RECURSIVE ProcessFormData(_, _, _)
ProcessFormData(entries, i, updates) ==
    IF i > Len(entries) THEN updates
    ELSE LET key   == entries[i].key
             value == entries[i].value
             parts == Split(key, ".")
         IN  IF StartsWith(key, "rarities")
             THEN LET rarityName == parts[2]
                      property   == parts[3]
                      old == IF ObjHas(updates.rarities, rarityName)
                             THEN ObjGet(updates.rarities, rarityName) ELSE <<>>
                  IN  ProcessFormData(entries, i + 1,
                          [updates EXCEPT !.rarities =
                              ObjSet(updates.rarities, rarityName,
                                     ObjSet(old, property, ParseFloat(value)))])
             ELSE IF StartsWith(key, "cards_to_add") /\ Trim(value) # <<>>
             THEN ProcessFormData(entries, i + 1,
                      [updates EXCEPT !.cards_to_add =
                          ObjSet(updates.cards_to_add, parts[2],
                                 TrimAndFilter(Split(value, ",")))])
             ELSE ProcessFormData(entries, i + 1, updates)

\* the body handlePackUpdate sends: the three sections, each deleted when
\* it has no key
UpdateBody(sections, deleteField) ==
    LET updates == ProcessFormData(PackFormData(sections), 1,
                                   [rarities |-> <<>>, cards_to_add |-> <<>>])
    IN  [rarities        |-> Section(updates.rarities),
         cards_to_add    |-> Section(updates.cards_to_add),
         cards_to_delete |-> Section(JsonParse(deleteField))]

\* a test of response.ok that every answer passes
ResponseOkAlways(r) == TRUE

\* response.ok
ResponseOk(r) == r.outcome = "ok"

PacksMayAct ==
    /\ packsLoaded
    /\ nEvents < MaxPackEvents

\* fetchAllPacks() up to its fetch
FetchAllPacks(inflightNow) ==
    /\ packInflight' = inflightNow \cup {PackRequest("GET_ALL", packNextRid, <<>>, NoBody)}
    /\ packNextRid' = packNextRid + 1

\* DOMContentLoaded: the pack list is fetched and the submit listener set
PacksLoad ==
    /\ ~packsLoaded
    /\ packsLoaded' = TRUE
    /\ FetchAllPacks(packInflight)
    /\ packEvent' = PackStep("load", "issued", packNextRid)
    /\ packAlerts' = <<>>
    /\ nEvents' = nEvents + 1
    /\ UNCHANGED <<packsTableBody, currentPack, packIdDisplay, raritySections,
                   cardsToDelete, packModalShown, removeLog>>

\* fetchAllPacks from the resolution of its fetch; displayPacks empties the
\* table before it walks the body
PackListResponse(req, r) ==
    /\ req \in packInflight
    /\ req.kind = "GET_ALL"
    /\ r \in PackListResponses
    /\ packInflight' = packInflight \ {req}
    /\ IF ~ResponseOk(r)
       THEN /\ packAlerts' = <<Danger("Failed to load packs. Please try again.")>>
            /\ UNCHANGED packsTableBody
       ELSE IF ~r.isArray
       THEN /\ packAlerts' = <<Danger("Failed to load packs. Please try again.")>>
            /\ packsTableBody' = <<>>
       ELSE /\ packAlerts' = <<>>
            /\ packsTableBody' = r.packs
    /\ packEvent' = PackStep("listResponse",
                             IF ResponseOk(r) /\ r.isArray THEN "ok" ELSE "failed", req.rid)
    /\ UNCHANGED <<packsLoaded, currentPack, packIdDisplay, raritySections, cardsToDelete,
                   packModalShown, packNextRid, removeLog, nEvents>>

\* a click on the name link or the Edit button of the k-th row:
\* fetchPackDetails up to its fetch.  The shown modal covers the table.
EditPackClick(k) ==
    /\ PacksMayAct
    /\ Cardinality(packInflight) < MaxInflight
    /\ ~packModalShown
    /\ k \in 1..Len(packsTableBody)
    /\ packInflight' = packInflight \cup
           {PackRequest("GET_PACK", packNextRid, packsTableBody[k], NoBody)}
    /\ packNextRid' = packNextRid + 1
    /\ packEvent' = PackStep("edit", "issued", packNextRid)
    /\ packAlerts' = <<>>
    /\ nEvents' = nEvents + 1
    /\ UNCHANGED <<packsLoaded, packsTableBody, currentPack, packIdDisplay, raritySections,
                   cardsToDelete, packModalShown, removeLog>>

\* fetchPackDetails from the resolution of its fetch
PackDetailsResponse(req, r) ==
    /\ req \in packInflight
    /\ req.kind = "GET_PACK"
    /\ r \in PackDetailResponses(req.packId)
    /\ packInflight' = packInflight \ {req}
    /\ IF ~ResponseOk(r) \/ ~r.isJson
       THEN /\ packAlerts' = <<Danger("Failed to load pack details. Please try again.")>>
            /\ UNCHANGED <<currentPack, packIdDisplay, raritySections, cardsToDelete,
                           packModalShown, removeLog>>
       ELSE IF r.isNull
       THEN /\ currentPack' = NoPack
            /\ packAlerts' = <<Danger("Failed to load pack details. Please try again.")>>
            /\ UNCHANGED <<packIdDisplay, raritySections, cardsToDelete, packModalShown,
                           removeLog>>
       ELSE /\ currentPack' = r.pack
            /\ ShowPackDetailsModal(r.pack)
            /\ packAlerts' = <<>>
    /\ packEvent' = PackStep("detailsResponse",
                             IF ResponseOk(r) /\ r.isJson /\ ~r.isNull THEN "shown"
                             ELSE "failed", req.rid)
    /\ UNCHANGED <<packsLoaded, packsTableBody, packNextRid, nEvents>>

\* a click on the Remove button of the c-th card of the s-th rarity section
RemoveClick(s, c) ==
    /\ PacksMayAct
    /\ packModalShown
    /\ s \in 1..Len(raritySections)
    /\ c \in 1..Len(raritySections[s].cardItems)
    /\ LET rarity == raritySections[s].rarityName
           cardId == raritySections[s].cardItems[c]
           items  == raritySections[s].cardItems
       IN  /\ cardsToDelete' =
                  JsonStringify(AddCardToDeleteList(JsonParse(cardsToDelete), rarity, cardId))
           /\ raritySections' =
                  [raritySections EXCEPT ![s].cardItems =
                      SubSeq(items, 1, c - 1) \o SubSeq(items, c + 1, Len(items))]
           /\ removeLog' = Append(removeLog,
                                  [pack |-> packIdDisplay, rarity |-> rarity, card |-> cardId])
    /\ packEvent' = PackStep("remove", "", 0)
    /\ packAlerts' = <<>>
    /\ nEvents' = nEvents + 1
    /\ UNCHANGED <<packsLoaded, packsTableBody, currentPack, packIdDisplay, packModalShown,
                   packInflight, packNextRid>>

\* the Cancel or the close button of the modal (data-bs-dismiss="modal")
DismissClick ==
    /\ PacksMayAct
    /\ packModalShown
    /\ packModalShown' = FALSE
    /\ packEvent' = PackStep("dismiss", "", 0)
    /\ packAlerts' = <<>>
    /\ nEvents' = nEvents + 1
    /\ UNCHANGED <<packsLoaded, packsTableBody, currentPack, packIdDisplay, raritySections,
                   cardsToDelete, packInflight, packNextRid, removeLog>>

\* the sections with the texts typed into their "Add Cards" inputs
TypedSections(sections, texts) ==
    [k \in 1..Len(sections) |-> [sections[k] EXCEPT !.addCardsInput = texts[k]]]

\* Save Changes is clicked with texts typed: handlePackUpdate up to its fetch
PackFormSubmit(texts) ==
    /\ PacksMayAct
    /\ Cardinality(packInflight) < MaxInflight
    /\ packModalShown
    /\ raritySections' = TypedSections(raritySections, texts)
    /\ packInflight' = packInflight \cup
           {PackRequest("PUT", packNextRid, packIdDisplay,
                        UpdateBody(raritySections', cardsToDelete))}
    /\ packNextRid' = packNextRid + 1
    /\ packEvent' = PackStep("submit", "issued", packNextRid)
    /\ packAlerts' = <<>>
    /\ nEvents' = nEvents + 1
    /\ UNCHANGED <<packsLoaded, packsTableBody, currentPack, packIdDisplay, cardsToDelete,
                   packModalShown, removeLog>>

\* handlePackUpdate from the resolution of its fetch
PackUpdateResponse(req, r) ==
    /\ req \in packInflight
    /\ req.kind = "PUT"
    /\ r \in PackUpdateResponses
    /\ IF ResponseOk(r)
       THEN /\ packModalShown' = FALSE
            /\ packAlerts' = <<Success("Pack updated successfully!")>>
            /\ FetchAllPacks(packInflight \ {req})
       ELSE /\ packAlerts' = <<Danger("Failed to update pack. Please try again.")>>
            /\ packInflight' = packInflight \ {req}
            /\ UNCHANGED <<packModalShown, packNextRid>>
    /\ packEvent' = PackStep("updateResponse", r.outcome, req.rid)
    /\ UNCHANGED <<packsLoaded, packsTableBody, currentPack, packIdDisplay, raritySections,
                   cardsToDelete, removeLog, nEvents>>

\* every page but the pack-management page stays as it is
PacksOnly == UNCHANGED <<browserVars, collectionVars, authVars, addPackVars>>

PacksNext ==
    \/ PacksLoad /\ PacksOnly
    \/ \E k \in 1..Len(packsTableBody) : EditPackClick(k) /\ PacksOnly
    \/ \E s \in 1..Len(raritySections) :
          \E c \in 1..Len(raritySections[s].cardItems) : RemoveClick(s, c) /\ PacksOnly
    \/ DismissClick /\ PacksOnly
    \/ \E texts \in [1..Len(raritySections) -> AddCardsTexts] :
          PackFormSubmit(texts) /\ PacksOnly
    \/ \E req \in {q \in packInflight : q.kind = "GET_ALL"} :
          \E r \in PackListResponses : PackListResponse(req, r) /\ PacksOnly
    \/ \E req \in {q \in packInflight : q.kind = "GET_PACK"} :
          \E r \in PackDetailResponses(req.packId) : PackDetailsResponse(req, r) /\ PacksOnly
    \/ \E req \in {q \in packInflight : q.kind = "PUT"} :
          \E r \in PackUpdateResponses : PackUpdateResponse(req, r) /\ PacksOnly

allVars == <<vars, collectionVars, authVars, adminVars>>

\* no page has been loaded yet
Start == Init /\ CollectionInit /\ AuthIdle /\ AddPackInit /\ PacksInit

\* a document of the site has just been opened
StartAuth == Init /\ CollectionInit /\ AuthInit /\ AddPackInit /\ PacksInit

\* the card browser alone
Spec == Start /\ [][Next]_vars

\* the collection page alone
SpecCollection == Start /\ [][CollectionNext]_allVars

\* both pages open side by side, with MaxPagesEvents user events between them
PagesNext ==
    \/ Next /\ nEvents' <= MaxPagesEvents
    \/ CollectionNext /\ nEvents' <= MaxPagesEvents

SpecPages == Start /\ [][PagesNext]_allVars

\* the sign-in pages alone
SpecAuth == StartAuth /\ [][AuthNext]_allVars

\* the add-pack page alone
SpecAddPack == Start /\ [][AddPackNext]_allVars

\* the pack-management page alone
SpecPacks == Start /\ [][PacksNext]_allVars


(***************************************************************************)
(* Properties.                                                             *)
(***************************************************************************)
\* handlers that change a filter, sort or size parameter
ParameterOps == {"collection", "search", "clearSearch", "sortBy", "sortOrder", "perPage"}

\* handlers that run fetchAndDisplayCards
FetchOps == ParameterOps \cup {"load", "page"}

\* the step just taken was a user event
UserStep == nEvents' = nEvents + 1

HasCards(area) == \E i \in 1..Len(area) : area[i].type = "card"

\* C1: once no listCards call is pending, cards displayed with no error
\* shown were rendered from the answer to the most recent listCards request
C1_LatestFetchWins ==
    (Pending("GET") = {} /\ HasCards(cardDisplayArea)
        /\ errorMessageDiv.display = "none") => shownRid = lastGetRid

\* C2: a change of collection, search, sort field, sort order or page size
\* leaves page at 1 and any GET it sends asks for page 1; a click on a page
\* button changes none of collection, search, sort field, sort order, page size
C2_PageResetOnChange ==
    [][ /\ (UserStep /\ lastEvent'.op \in ParameterOps) =>
              /\ currentPage' = 1
              /\ \A req \in inflight' \ inflight : req.query.page = 1
        /\ (UserStep /\ lastEvent'.op = "page") =>
              UNCHANGED <<currentCollectionName, currentSearchQuery, currentSortBy,
                          currentSortOrder, itemsPerPage>> ]_vars

\* C2 witness: a sort-order change made on page 2 has sent its GET for page 1
C2_Witness ==
    /\ lastEvent.op = "sortOrder"
    /\ lastEvent.prevPage = 2
    /\ lastEvent.outcome = "issued"
    /\ currentPage = 1

\* the value a query carries for a text parameter, "" when not appended
SentText(value) == IF value = Absent THEN <<>> ELSE QueryDecode(value)

\* C3: every run of fetchAndDisplayCards sends a GET whose query parameters
\* are the values of the view tuple
C3_FetchSendsTuple ==
    lastEvent.op \in FetchOps =>
        \E req \in Pending("GET") :
            /\ req.rid = lastGetRid
            /\ req.op = lastEvent.op
            /\ req.query.page = currentPage
            /\ req.query.per_page = itemsPerPage
            /\ req.query.sort_by = currentSortBy
            /\ req.query.sort_order = currentSortOrder
            /\ SentText(req.query.collectionName) = OrEmpty(currentCollectionName)
            /\ SentText(req.query.search_query) = OrEmpty(currentSearchQuery)

ValidQuantityText(text) == ~ParseInt(text).nan /\ ParseInt(text).val >= 0

\* C4: the Set button sends nothing and alerts when its text is negative or
\* not a number, and sends its update when the text is 0
C4_SetRejectsInvalid ==
    /\ \A req \in inflight : req.op = "set" => ValidQuantityText(req.text)
    /\ (lastEvent.op = "set" /\ ~ValidQuantityText(lastEvent.text)) => alerts # <<>>
    /\ (lastEvent.op = "set" /\ lastEvent.text = <<"0">>) =>
           \E req \in inflight : req.op = "set" /\ req.text = <<"0">>

\* the first card element of the area that shows card id, 0 if none does
FirstShown(area, id) ==
    IF \E i \in 1..Len(area) : area[i].type = "card" /\ area[i].id = id
    THEN CHOOSE i \in 1..Len(area) :
             /\ area[i].type = "card" /\ area[i].id = id
             /\ \A j \in 1..Len(area) : (area[j].type = "card" /\ area[j].id = id) => i <= j
    ELSE 0

C6_PageClickInRange ==
    lastEvent.op = "page" =>
        (totalPages # 0 /\ currentPage >= 1 /\ currentPage <= totalPages)

\* C7 as claimed: after a failed listCards call made when cards had been
\* fetched before, cards are still displayed
C7_CardsKeptOnFailedRefetch ==
    (lastEvent.op = "listResponse" /\ lastEvent.outcome = "error" /\ hadData) =>
        HasCards(cardDisplayArea)

\* C7 as amended: after any failed listCards call, first load or refetch,
\* the error banner is shown, the loading message hidden, and the card area
\* and both pagination containers are empty
C7_FailureClearsCards ==
    (lastEvent.op = "listResponse" /\ lastEvent.outcome = "error") =>
        /\ errorMessageDiv.display = "block"
        /\ loadingMessage = "none"
        /\ cardDisplayArea = <<>>
        /\ paginationControlsTop = NoControls
        /\ paginationControlsBottom = NoControls

\* C7 witness: a refetch has failed after cards had been rendered before
C7_Witness ==
    lastEvent.op = "listResponse" /\ lastEvent.outcome = "error" /\ hadData

\* C8: no handler run ends in an exception nobody catches
C8_NoUnhandledRejection == lastEvent.outcome # "threw"

\* C9: while the loading message is shown a listCards call is pending, whose
\* answer will hide it
C9_FetchingEnds == loadingMessage = "block" => Pending("GET") # {}

\* C10: after an answer with zero cards the card area holds only the
\* empty-state message and both pagination containers are empty
C10_EmptyResultNoPagination ==
    (lastEvent.op = "listResponse" /\ lastEvent.outcome = "empty") =>
        /\ cardDisplayArea = <<Paragraph("No cards found matching your criteria.")>>
        /\ paginationControlsTop = NoControls
        /\ paginationControlsBottom = NoControls

\* the view is at rest: no listCards call is pending and nothing is loading
Rendered == Pending("GET") = {} /\ loadingMessage = "none"

\* C11: in every state at rest, pagination controls are present only when
\* totalPages > 0, their Previous button is disabled exactly when the current
\* page is 1 and their Next button exactly when it is the last page
C11_PaginationMatchesView ==
    Rendered =>
        \A controls \in {paginationControlsTop, paginationControlsBottom} :
            controls.present =>
                /\ totalPages > 0
                /\ controls.prev.disabled <=> (currentPage = 1)
                /\ controls.next.disabled <=> (currentPage = totalPages)

\* text t occurs in text s
Contains(s, t) ==
    \E i \in 0..(Len(s) - Len(t)) : SubSeq(s, i + 1, i + Len(t)) = t

\* C12: when the answer to a listCards call is not 2xx and its body carries
\* a string detail, the error banner is shown and its text contains the detail
C12_ErrorShowsDetail ==
    [][ \A req \in Pending("GET") : \A r \in ListResponses(req.query) :
           (ListResponse(req, r) /\ r.outcome = "http" /\ r.detail # Absent) =>
               /\ errorMessageDiv'.display = "block"
               /\ Contains(errorMessageDiv'.textContent, r.detail) ]_vars

\* C12 witness: the banner shows the detail of a 500 answer
C12_Witness ==
    /\ lastEvent.op = "listResponse"
    /\ lastEvent.outcome = "error"
    /\ errorMessageDiv.display = "block"
    /\ Contains(errorMessageDiv.textContent, <<"500", ", Server says: ", "db unavailable">>)

\* C13: after a 2xx answer whose body is no object or has no cards array, no
\* card is displayed, both pagination containers are empty and the handler
\* has not thrown
C13_MalformedFallsBackEmpty ==
    (lastEvent.op = "listResponse" /\ lastEvent.outcome \in {"invalid", "badformat"}) =>
        /\ ~HasCards(cardDisplayArea)
        /\ paginationControlsTop = NoControls
        /\ paginationControlsBottom = NoControls

\* C14: every user event that changes the view state (the load included)
\* adds exactly one GET to the requests in flight
C14_ExactlyOneFetch ==
    [][ (UserStep /\ lastEvent'.op \in FetchOps) =>
            Cardinality({req \in inflight' : req.kind = "GET"} \ inflight) = 1 ]_vars

\* update requests: quantity delta (PATCH) and absolute set (PUT)
UpdateKinds == {"PATCH", "PUT"}

\* C17: when the answer to an update of a card is applied, no update of the
\* same card that was sent after it is in flight
C17_NoOverlappingUpdates ==
    [][ (lastEvent'.op \in {"quantityResponse", "setPatchResponse", "setPutResponse"}
            /\ inflight' # inflight) =>
          \A req \in inflight \ inflight' : \A later \in inflight' :
              ~(/\ later.kind \in UpdateKinds
                /\ later.card = req.card
                /\ later.rid > req.rid
                /\ later \in inflight
                /\ cardDisplayArea' # cardDisplayArea) ]_vars

\* the ids of a sequence of card records or card elements, in order
IdsOf(cards) == [k \in 1..Len(cards) |-> cards[k].id]

QuantityOps == {"quantity", "set", "quantityResponse", "setPatchResponse", "setPutResponse"}

\* handlers of the collection page that send or finish a card edit
EditOps == {"submit", "editResponse"}

\* C16: a step of a quantity update or of a card edit, whatever its outcome,
\* sends no listCards request and leaves the displayed cards in their order
C16_UpdatesKeepOrderNoRefetch ==
    [][ /\ (browserVars' # browserVars /\ lastEvent'.op \in QuantityOps) =>
              /\ {req \in inflight' : req.kind = "GET"} = Pending("GET")
              /\ IdsOf(cardDisplayArea') = IdsOf(cardDisplayArea)
              /\ UNCHANGED <<loadingMessage, lastGetRid>>
        /\ (collectionVars' # collectionVars /\ collectionEvent'.op \in EditOps) =>
              /\ {req \in collectionInflight' : req.kind = "GET"}
                     = {req \in collectionInflight : req.kind = "GET"}
              /\ IdsOf(myCardsArea'.cards) = IdsOf(myCardsArea.cards)
              /\ IdsOf(currentCards'.items) = IdsOf(currentCards.items) ]_allVars

\* C16 witness: a card edit has been answered 2xx while two cards are cached
\* and displayed and no list request of the page is pending
C16_Witness ==
    /\ collectionEvent.op = "editResponse"
    /\ collectionEvent.outcome = "ok"
    /\ Len(myCardsArea.cards) = 2
    /\ Len(currentCards.items) = 2
    /\ collectionInflight = {}

\* C20: after a non-2xx answer the user is shown the answer's detail when it
\* carries one and otherwise a message that names the HTTP status
C20_ErrorShowsDetailOrStatus ==
    (collectionEvent.op \in {"cardsResponse", "editResponse"}
        /\ collectionEvent.status \notin {"", "200"}) =>
        \E a \in {collectionAlerts[k] : k \in 1..Len(collectionAlerts)} :
            IF collectionEvent.detail # Absent
            THEN Contains(a, collectionEvent.detail)
            ELSE Contains(a, <<collectionEvent.status>>)

\* the step just taken was a call of the document's auth observer
ObserverCalled == authVars' # authVars /\ authEvent'.op = "authStateChanged"

C19_LoginPageRedirect ==
    [][ (ObserverCalled /\ authEvent'.page = "login.html") =>
            IF authEvent'.user # Null
            THEN /\ authEvent'.href = "index.html"
                 /\ LastSegment(pathname') = "index.html"
            ELSE /\ authEvent'.href = ""
                 /\ pathname' = pathname ]_allVars

\* C19 witness: after a click on the login page the observer was called with
\* the signed-in user and the home page is now open
C19_Witness ==
    /\ authEvent.op = "authStateChanged"
    /\ authEvent.page = "login.html"
    /\ authEvent.user = SignedIn
    /\ authEvent.href = "index.html"
    /\ pathname = <<"/", "index.html">>
    /\ nEvents > 0

\* the alerts that reject a typed quantity; every other alert of the card
\* browser reports a failed update
ValidationAlerts ==
    { "Please enter a valid number for quantity change.",
      "Please enter a valid non-negative number for quantity." }

\* the step just taken handled the failure of a fetch or of an update: it
\* was no user event, and it showed the error banner for a list answer or
\* alerted the failure of an update
FailureHandled ==
    /\ nEvents' = nEvents
    /\ \/ lastEvent'.op = "listResponse" /\ lastEvent'.outcome \in {"error", "invalid"}
       \/ \E k \in 1..Len(alerts') : alerts'[k] \notin ValidationAlerts

\* C21: the step that handles a failed fetch or update sends no request:
\* between a failure and the next user event no network call is issued
C21_NoCallAfterFailure ==
    [][ FailureHandled => inflight' \subseteq inflight ]_vars

\* C26: whenever no listCards call is pending and the answer to the most
\* recently issued one was rendered, the error banner is hidden
C26_NoStaleErrorBanner ==
    (Pending("GET") = {} /\ lastGetOutcome = "ok") => errorMessageDiv.display = "none"

\* C27: the loading message is shown in every state in which a listCards
\* call is pending
C27_LoadingWhilePending == Pending("GET") # {} => loadingMessage = "block"

\* C28: a click on Set with a non-negative integer v typed sends nothing but
\* the PUT that carries quantity v for that card, and no PATCH
C28_SetSendsOnlyPut ==
    [][ (UserStep /\ lastEvent'.op = "set" /\ ValidQuantityText(lastEvent'.text)) =>
            \A req \in inflight' \ inflight :
                /\ req.kind = "PUT"
                /\ req.card = lastEvent'.card
                /\ req.amount = ParseInt(lastEvent'.text).val ]_vars

\* the cards the service returns for the collection the page has selected
SelectedCards ==
    StoredCards(IF EndpointSuffix(selectedCollection) = Absent THEN <<>>
                ELSE QueryDecode(EndpointSuffix(selectedCollection)))

\* C25: when a list answer is stored and displayed and leaves no fetch of
\* the collection page in flight, the cached and the displayed cards are
\* those returned for the most recently selected collection
C25_CacheIsSelectedCollection ==
    [][ (/\ collectionVars' # collectionVars
         /\ collectionEvent'.op = "cardsResponse"
         /\ collectionEvent'.outcome = "ok"
         /\ {req \in collectionInflight' : req.kind = "GET"} = {}) =>
            /\ currentCards'.items = SelectedCards'
            /\ myCardsArea'.cards = SelectedCards' ]_allVars

\* how many of the nodes carry the id
CountById(nodes, id) == Cardinality({k \in 1..Len(nodes) : nodes[k].id = id})

\* the text of the nodes that carry the id
TextsById(nodes, id) ==
    {nodes[k].textContent : k \in {i \in 1..Len(nodes) : nodes[i].id = id}}

\* C30: the nav never holds more than one auth link or more than one user
\* info; after an auth-state event that reports a user it holds the Logout
\* link and a user info, after one that reports none the Login/Sign Up link
\* and no user info
C30_NavHoldsOneAuthLink ==
    [][ /\ CountById(navLinks', "auth-link") <= 1
        /\ CountById(navLinks', "user-info") <= 1
        /\ (ObserverCalled /\ authEvent'.href = "" /\ authEvent'.page # "login.html") =>
              IF authEvent'.user # Null
              THEN /\ TextsById(navLinks', "auth-link") = {"Logout"}
                   /\ CountById(navLinks', "user-info") = 1
              ELSE /\ TextsById(navLinks', "auth-link") = {"Login/Sign Up"}
                   /\ CountById(navLinks', "user-info") = 0 ]_allVars

\* C30 witness: on a page that showed Logout, the sign-out has been reported
\* to the observer before handleSignOut's redirect, and the nav holds the
\* Login/Sign Up link alone
C30_Witness ==
    /\ authEvent.op = "authStateChanged"
    /\ authEvent.user = Null
    /\ authEvent.page = "index.html"
    /\ authPending = "signedOut"
    /\ navLinks = <<NavNode("auth-link", "Login/Sign Up")>>

\* the probability texts of the model that denote a number outside [0, 1]
OutOfRangeTexts == {<<"1", ".", "5">>, <<"-", "0", ".", "1">>}

\* the form as submitted is one the page has to reject: the pack name is
\* empty once trimmed, there is no rarity group, a group has an empty name
\* or an empty probability, a probability lies outside [0, 1], or two groups
\* carry the same name
Rejectable(name, groups) ==
    \/ Trim(name) = <<>>
    \/ Len(groups) = 0
    \/ \E k \in 1..Len(groups) :
          \/ groups[k].rarityName = <<>>
          \/ groups[k].rarityProbability = <<>>
          \/ groups[k].rarityProbability \in OutOfRangeTexts
    \/ \E j, k \in 1..Len(groups) : j # k /\ groups[j].rarityName = groups[k].rarityName

\* C22: a submit of the add-pack form that has to be rejected sends nothing
\* and shows an error message; every other submit sends exactly one POST
\* whose rarities configuration has one entry per active rarity group, under
\* the group's name
C22_AddPackValidation ==
    [][ (nEvents' = nEvents + 1 /\ addPackEvent'.op = "submit") =>
            IF Rejectable(packNameInput', raritiesContainer')
            THEN /\ addPackInflight' = addPackInflight
                 /\ responseMessage'.className = "error"
                 /\ responseMessage'.textContent # <<>>
            ELSE \E req \in addPackInflight' \ addPackInflight :
                    /\ addPackInflight' = addPackInflight \cup {req}
                    /\ Cardinality(req.rarities_config) = Len(raritiesContainer')
                    /\ {e.name : e \in req.rarities_config}
                           = {raritiesContainer'[k].rarityName :
                                  k \in 1..Len(raritiesContainer')} ]_allVars

\* C22 witness: a form with two rarity groups has been submitted and its POST,
\* with two entries, is in flight
C22_Witness ==
    /\ addPackEvent = AddPackStep("submit", "issued")
    /\ Len(raritiesContainer) = 2
    /\ \E req \in addPackInflight : Cardinality(req.rarities_config) = 2
\* the cards of the Remove clicks of log made under rarity, in click order
CardsClicked(log, rarity) ==
    LET OfRarity(click) == click.rarity = rarity
        clicks == SelectSeq(log, OfRarity)
    IN  [k \in 1..Len(clicks) |-> clicks[k].card]

\* C23: the PUT that a submit of the pack-update form sends carries under
\* cards_to_delete, for each rarity, exactly the card ids whose Remove button
\* was clicked since the modal was opened, in click order, and each of the
\* sections rarities, cards_to_add and cards_to_delete is left out of the body
\* when it has no entry.
C23_DeleteListIsClicks ==
    [][ (nEvents' = nEvents + 1 /\ packEvent'.op = "submit")
        => \E req \in packInflight' \ packInflight :
              /\ packInflight' \ packInflight = {req}
              /\ req.kind = "PUT"
              /\ LET sent == req.body.cards_to_delete.entries
                 IN  /\ \A k \in 1..Len(sent) :
                           /\ sent[k].value = CardsClicked(removeLog, sent[k].key)
                           /\ \A j \in 1..Len(sent) : sent[j].key = sent[k].key => j = k
                     /\ \A k \in 1..Len(removeLog) : ObjHas(sent, removeLog[k].rarity)
                     /\ req.body.cards_to_delete.present <=> removeLog # <<>>
                     /\ ~req.body.cards_to_delete.present => sent = <<>>
              /\ req.body.rarities.present <=> raritySections' # <<>>
              /\ ~req.body.rarities.present => req.body.rarities.entries = <<>>
              /\ req.body.cards_to_add.present
                    <=> \E k \in 1..Len(raritySections') :
                           Trim(raritySections'[k].addCardsInput) # <<>>
              /\ ~req.body.cards_to_add.present => req.body.cards_to_add.entries = <<>>
      ]_allVars

\* two cards of one rarity were removed, the second of the list first, and the
\* form was submitted with nothing to add
C23_Witness ==
    /\ packEvent.op = "submit"
    /\ \E req \in packInflight :
          /\ req.kind = "PUT"
          /\ req.rid = packEvent.rid
          /\ req.body.cards_to_delete.entries =
                 << [key |-> <<"common">>, value |-> << <<"k2">>, <<"k1">> >>] >>
          /\ req.body.rarities.present
          /\ ~req.body.cards_to_add.present

\* the requests for the pack list that the step just taken has sent
ListRefetches == {req \in packInflight' \ packInflight : req.kind = "GET_ALL"}

\* C24: when a pack update fails (an answer that is not 2xx, or no answer) the
\* modal is left as it was, an error alert is shown and the pack list is not
\* fetched again; when it succeeds the modal is hidden, a success alert is
\* shown and the pack list is fetched again exactly once.
C24_UpdateOutcome ==
    [][ (packVars' # packVars /\ packEvent'.op = "updateResponse")
        => IF packEvent'.outcome = "ok"
           THEN /\ ~packModalShown'
                /\ packAlerts' = <<Success("Pack updated successfully!")>>
                /\ Cardinality(ListRefetches) = 1
           ELSE /\ packModalShown' = packModalShown
                /\ packAlerts' = <<Danger("Failed to update pack. Please try again.")>>
                /\ ListRefetches = {}
      ]_allVars

\* an update has just failed with the modal still open
C24_Witness ==
    /\ packEvent.op = "updateResponse"
    /\ packEvent.outcome \in {"net", "http"}
    /\ packEvent.wasShown
    /\ packModalShown
    /\ packAlerts # <<>>

\* the card ids of a rarity of a pack of the service
CardsOfPack(packId, rarity) ==
    LET configs == PackById(packId).rarity_configurations
    IN  IF ObjHas(configs, rarity)
        THEN {ObjGet(configs, rarity).cards[k] :
                 k \in 1..Len(ObjGet(configs, rarity).cards)}
        ELSE {}

====
